---- MODULE Spec2Model ----
(***************************************************************************)
(* CS demo manager: ingestion of the decoded event tables into a Match     *)
(* (src/src/core/demo_parser.py), the statistics read from it              *)
(* (src/src/core/data_processor.py) and the parser worker thread with its  *)
(* manager (src/src/gui/parser_worker.py), the playback viewer             *)
(* (src/src/gui/demo_viewer.py) and the coordinate transforms              *)
(* (src/src/utils/map_config.py, src/src/core/map_renderer.py).            *)
(*                                                                         *)
(* Text is modelled as a sequence of one-character strings, so that        *)
(* upper-casing and substring tests are computed and not assumed.  The     *)
(* viewer's arithmetic is Python's float, computed digit by digit.  A call *)
(* that raises is modelled by what is left behind when it raises.          *)
(***************************************************************************)
EXTENDS Integers, Sequences, FiniteSets, TLC

(***************************************************************************)
(* Bounds of the model and program constants.                              *)
(***************************************************************************)
\* longest player_death table the decoder hands over
MaxDeaths == 2
\* longest round_end table the decoder hands over
MaxRounds == 3
\* demo_parser.py:53,82,90  tick_rate default
DefaultTickRate == 64

(***************************************************************************)
(* Text helpers (str.upper, str.lower, the `in` operator on str).  A       *)
(* string is the sequence of its characters; a character from U+0000 to    *)
(* U+00FF is written as itself and a character above by its code point     *)
(* ("U+212A").  The strings of the model are written with the characters   *)
(* up to U+00FF, the characters above that upper() or lower() turns into   *)
(* one of them, the characters these calls make of all of those, and the   *)
(* spaces above U+00FF.                                                    *)
(***************************************************************************)
\* the lower-case letters up to U+00FF whose upper case is one letter up to
\* U+00FF, and those upper-case letters in the same order
LowerLetters ==
    << "a", "b", "c", "d", "e", "f", "g", "h", "i", "j", "k", "l", "m", "n",
       "o", "p", "q", "r", "s", "t", "u", "v", "w", "x", "y", "z", "à", "á",
       "â", "ã", "ä", "å", "æ", "ç", "è", "é", "ê", "ë", "ì", "í", "î", "ï",
       "ð", "ñ", "ò", "ó", "ô", "õ", "ö", "ø", "ù", "ú", "û", "ü", "ý", "þ" >>

UpperLetters ==
    << "A", "B", "C", "D", "E", "F", "G", "H", "I", "J", "K", "L", "M", "N",
       "O", "P", "Q", "R", "S", "T", "U", "V", "W", "X", "Y", "Z", "À", "Á",
       "Â", "Ã", "Ä", "Å", "Æ", "Ç", "È", "É", "Ê", "Ë", "Ì", "Í", "Î", "Ï",
       "Ð", "Ñ", "Ò", "Ó", "Ô", "Õ", "Ö", "Ø", "Ù", "Ú", "Û", "Ü", "Ý", "Þ" >>

\* the place of a letter in a sequence of letters
IndexIn(letters, c) == CHOOSE i \in DOMAIN letters : letters[i] = c

\* str.upper of one character, for the characters it changes
UpperOf ==
    [c \in {LowerLetters[i] : i \in DOMAIN LowerLetters} |->
        <<UpperLetters[IndexIn(LowerLetters, c)]>>] @@
    ("µ" :> <<"U+039C">>) @@
    ("ß" :> <<"S", "S">>) @@
    ("ÿ" :> <<"U+0178">>) @@
    ("U+0131" :> <<"I">>) @@
    ("U+0149" :> <<"U+02BC", "N">>) @@
    ("U+017F" :> <<"S">>) @@
    ("U+01F0" :> <<"J", "U+030C">>) @@
    ("U+03BC" :> <<"U+039C">>) @@
    ("U+1E96" :> <<"H", "U+0331">>) @@
    ("U+1E97" :> <<"T", "U+0308">>) @@
    ("U+1E98" :> <<"W", "U+030A">>) @@
    ("U+1E99" :> <<"Y", "U+030A">>) @@
    ("U+1E9A" :> <<"A", "U+02BE">>) @@
    ("U+FB00" :> <<"F", "F">>) @@
    ("U+FB01" :> <<"F", "I">>) @@
    ("U+FB02" :> <<"F", "L">>) @@
    ("U+FB03" :> <<"F", "F", "I">>) @@
    ("U+FB04" :> <<"F", "F", "L">>) @@
    ("U+FB05" :> <<"S", "T">>) @@
    ("U+FB06" :> <<"S", "T">>)

\* str.lower of one character, for the characters it changes
LowerOf ==
    [c \in {UpperLetters[i] : i \in DOMAIN UpperLetters} |->
        <<LowerLetters[IndexIn(UpperLetters, c)]>>] @@
    ("U+0130" :> <<"i", "U+0307">>) @@
    ("U+0178" :> <<"ÿ">>) @@
    ("U+039C" :> <<"U+03BC">>) @@
    ("U+1E9E" :> <<"ß">>) @@
    ("U+212A" :> <<"k">>) @@
    ("U+212B" :> <<"å">>)

\* a string with each of its characters replaced by what a table holds for
\* it
RECURSIVE MapChars(_, _)
MapChars(table, s) ==
    IF s = <<>> THEN <<>>
    ELSE (IF Head(s) \in DOMAIN table THEN table[Head(s)] ELSE <<Head(s)>>)
         \o MapChars(table, Tail(s))

\* str.upper
Upper(s) == MapChars(UpperOf, s)

Contains(s, sub) ==
    \E i \in 1..(Len(s) - Len(sub) + 1) : SubSeq(s, i, i + Len(sub) - 1) = sub

STR_TERRORIST == <<"T","E","R","R","O","R","I","S","T">>
STR_T == <<"T">>
STR_CT == <<"C","T">>
STR_COUNTER == <<"C","O","U","N","T","E","R">>
STR_SPEC == <<"S","P","E","C">>

\* an exception raised by a call: the value that stands where the call's
\* result would have been
Raised(kind) == [raised |-> kind]
IsRaised(v) == "raised" \in DOMAIN v

\* Team.T, Team.CT, Team.SPECTATOR, Team.UNASSIGNED: the class Team of
\* models.py:62-81 is a dataclass of a team's statistics and has no such
\* attribute, the lookup raises AttributeError
TeamMember(name) == Raised("AttributeError")

\* DemoParserWrapper._parse_team: the string tests choose the member, and
\* the return statement looks it up
_parse_team(team_name) ==
    LET u == Upper(team_name) IN
    IF Contains(u, STR_TERRORIST) \/ u = STR_T THEN TeamMember("T")
    ELSE IF Contains(u, STR_CT) \/ Contains(u, STR_COUNTER) THEN TeamMember("CT")
    ELSE IF Contains(u, STR_SPEC) THEN TeamMember("SPECTATOR")
    ELSE TeamMember("UNASSIGNED")

(***************************************************************************)
(* Python's float: an IEEE 754 double, every operation rounded to the      *)
(* nearest double, ties to the even mantissa.  A natural number of any     *)
(* size is the sequence of its digits in base Limb, lowest first, without  *)
(* leading zeros; a finite double is (-1)^neg * m * 2^e with m odd (0.0    *)
(* and -0.0, which compare equal, are m empty, e 0), so that equal doubles *)
(* are equal values; inf, -inf and nan are values of their own.            *)
(***************************************************************************)
\* base of the digits: digit products stay below 2^31
Limb == 32768
\* bits of a digit
LimbBits == 15
\* bits of the mantissa of a double
MantBits == 53
\* the lowest bit of a double is 2^MinExp (the smallest subnormal)
MinExp == -1074
\* every finite double is below 2^MaxExp
MaxExp == 1024

RECURSIVE Pow2(_)
Pow2(k) == IF k = 0 THEN 1 ELSE 2 * Pow2(k - 1)

RECURSIVE BFromNat(_)
BFromNat(n) == IF n = 0 THEN <<>> ELSE <<n % Limb>> \o BFromNat(n \div Limb)

RECURSIVE BToNat(_)
BToNat(a) == IF a = <<>> THEN 0 ELSE a[1] + Limb * BToNat(Tail(a))

RECURSIVE BTrim(_)
BTrim(a) ==
    IF a = <<>> THEN a
    ELSE IF a[Len(a)] = 0 THEN BTrim(SubSeq(a, 1, Len(a) - 1))
    ELSE a

BDigit(a, i) == IF i <= Len(a) THEN a[i] ELSE 0

RECURSIVE BAddFrom(_, _, _, _)
BAddFrom(a, b, i, carry) ==
    IF i > Len(a) /\ i > Len(b)
    THEN IF carry = 0 THEN <<>> ELSE <<carry>>
    ELSE LET s == BDigit(a, i) + BDigit(b, i) + carry
         IN <<s % Limb>> \o BAddFrom(a, b, i + 1, s \div Limb)

BAdd(a, b) == BAddFrom(a, b, 1, 0)

RECURSIVE BSubFrom(_, _, _, _)
BSubFrom(a, b, i, borrow) ==
    IF i > Len(a) THEN <<>>
    ELSE LET d == a[i] - BDigit(b, i) - borrow
         IN IF d < 0 THEN <<d + Limb>> \o BSubFrom(a, b, i + 1, 1)
            ELSE <<d>> \o BSubFrom(a, b, i + 1, 0)

\* a - b for a >= b
BSub(a, b) == BTrim(BSubFrom(a, b, 1, 0))

RECURSIVE BLessFrom(_, _, _)
BLessFrom(a, b, i) ==
    IF i = 0 THEN FALSE
    ELSE IF a[i] # b[i] THEN a[i] < b[i]
    ELSE BLessFrom(a, b, i - 1)

BLess(a, b) ==
    IF Len(a) # Len(b) THEN Len(a) < Len(b) ELSE BLessFrom(a, b, Len(a))

RECURSIVE BMulDigitFrom(_, _, _, _)
BMulDigitFrom(a, x, i, carry) ==
    IF i > Len(a) THEN IF carry = 0 THEN <<>> ELSE <<carry>>
    ELSE LET p == a[i] * x + carry
         IN <<p % Limb>> \o BMulDigitFrom(a, x, i + 1, p \div Limb)

RECURSIVE BMul(_, _)
BMul(a, b) ==
    IF a = <<>> \/ b = <<>> THEN <<>>
    ELSE BTrim(BAdd(BMulDigitFrom(b, Head(a), 1, 0), <<0>> \o BMul(Tail(a), b)))

RECURSIVE BitLenDigit(_)
BitLenDigit(n) == IF n = 0 THEN 0 ELSE 1 + BitLenDigit(n \div 2)

BBitLen(a) ==
    IF a = <<>> THEN 0 ELSE LimbBits * (Len(a) - 1) + BitLenDigit(a[Len(a)])

\* a * 2^k
BShl(a, k) ==
    IF a = <<>> THEN a
    ELSE [i \in 1..(k \div LimbBits) |-> 0]
         \o BMulDigitFrom(a, Pow2(k % LimbBits), 1, 0)

\* a \div 2^k
BShr(a, k) ==
    LET whole == k \div LimbBits
        p == Pow2(k % LimbBits)
        rest == IF whole >= Len(a) THEN <<>> ELSE SubSeq(a, whole + 1, Len(a))
    IN BTrim([i \in 1..Len(rest) |->
                (rest[i] \div p) + (BDigit(rest, i + 1) % p) * (Limb \div p)])

\* a % 2^k
BLowBits(a, k) ==
    LET whole == k \div LimbBits
        p == Pow2(k % LimbBits)
    IN IF whole >= Len(a) THEN a
       ELSE BTrim(SubSeq(a, 1, whole) \o <<a[whole + 1] % p>>)

RECURSIVE TzDigit(_)
TzDigit(n) == IF n % 2 = 1 THEN 0 ELSE 1 + TzDigit(n \div 2)

\* the number of zero bits at the low end of a # 0
RECURSIVE BTz(_)
BTz(a) == IF a[1] = 0 THEN LimbBits + BTz(Tail(a)) ELSE TzDigit(a[1])

\* the largest digit x in lo..hi with d * x <= r
RECURSIVE QuotDigit(_, _, _, _)
QuotDigit(r, d, lo, hi) ==
    IF lo = hi THEN lo
    ELSE LET mid == (lo + hi + 1) \div 2
         IN IF BLess(r, BMulDigitFrom(d, mid, 1, 0))
            THEN QuotDigit(r, d, lo, mid - 1)
            ELSE QuotDigit(r, d, mid, hi)

\* long division, digit i of n downwards: <<quotient, remainder>>
RECURSIVE BDivFrom(_, _, _, _, _)
BDivFrom(n, d, i, q, r) ==
    IF i = 0 THEN <<BTrim(q), r>>
    ELSE LET r2 == BTrim(<<n[i]>> \o r)
             x == QuotDigit(r2, d, 0, Limb - 1)
         IN BDivFrom(n, d, i - 1, <<x>> \o q,
                     BSub(r2, BMulDigitFrom(d, x, 1, 0)))

\* n \div d and n % d for d # 0
BDivMod(n, d) == BDivFrom(n, d, Len(n), <<>>, <<>>)

\* inf and -inf
FInf(neg) == [neg |-> neg, inf |-> TRUE]

\* nan
FNaN == [nan |-> TRUE]

IsInf(a) == "inf" \in DOMAIN a
IsNaN(a) == "nan" \in DOMAIN a

\* the double of value (-1)^neg * m * 2^e when that value is a double
FCanon(neg, m, e) ==
    IF m = <<>> THEN [neg |-> FALSE, m |-> <<>>, e |-> 0]
    ELSE [neg |-> neg, m |-> BShr(m, BTz(m)), e |-> e + BTz(m)]

\* the double nearest to (-1)^neg * m * 2^e, ties to even.  A double keeps
\* MantBits bits of the mantissa, and below 2^-1022 only those down to
\* 2^MinExp: the result is 0.0 when the value is below half of 2^MinExp,
\* and inf when the rounded value reaches 2^MaxExp
FRound(neg, m, e) ==
    LET room == BBitLen(m) + e - MinExp
        kept == IF room < MantBits THEN room ELSE MantBits
        shift == BBitLen(m) - kept
        q == BShr(m, shift)
        rem == BLowBits(m, shift)
        half == BShl(<<1>>, shift - 1)
        up == BLess(half, rem) \/ (rem = half /\ BDigit(q, 1) % 2 = 1)
        r == IF shift <= 0 THEN m
             ELSE IF up THEN BAdd(q, <<1>>)
             ELSE q
        re == IF shift <= 0 THEN e ELSE e + shift
    IN IF m = <<>> \/ kept < 0 THEN FCanon(neg, <<>>, 0)
       ELSE IF BBitLen(r) + re > MaxExp THEN FInf(neg)
       ELSE FCanon(neg, r, re)

\* float(k)
FInt(k) == FCanon(k < 0, BFromNat(IF k < 0 THEN -k ELSE k), 0)

FZero == FInt(0)

\* -a
FNeg(a) ==
    IF IsNaN(a) THEN a
    ELSE IF IsInf(a) THEN FInf(~a.neg)
    ELSE IF a.m = <<>> THEN a
    ELSE [a EXCEPT !.neg = ~a.neg]

\* a + b
FAdd(a, b) ==
    IF IsNaN(a) \/ IsNaN(b) THEN FNaN
    ELSE IF IsInf(a)
         THEN IF IsInf(b) /\ a.neg # b.neg THEN FNaN ELSE a
    ELSE IF IsInf(b) THEN b
    ELSE LET e == IF a.e < b.e THEN a.e ELSE b.e
             ma == BShl(a.m, a.e - e)
             mb == BShl(b.m, b.e - e)
         IN IF a.neg = b.neg THEN FRound(a.neg, BAdd(ma, mb), e)
            ELSE IF BLess(ma, mb) THEN FRound(b.neg, BSub(mb, ma), e)
            ELSE FRound(a.neg, BSub(ma, mb), e)

\* a - b
FSub(a, b) == FAdd(a, FNeg(b))

\* a * b
FMul(a, b) ==
    IF IsNaN(a) \/ IsNaN(b) THEN FNaN
    ELSE IF IsInf(a)
         THEN IF ~IsInf(b) /\ b.m = <<>> THEN FNaN ELSE FInf(a.neg # b.neg)
    ELSE IF IsInf(b)
         THEN IF a.m = <<>> THEN FNaN ELSE FInf(a.neg # b.neg)
    ELSE FRound(a.neg # b.neg, BMul(a.m, b.m), a.e + b.e)

\* a / b: a division by 0.0 raises ZeroDivisionError; of finite a and b
\* the quotient is taken to MantBits + 3 bits and a last bit set when the
\* division leaves a remainder
FDiv(a, b) ==
    IF ~IsNaN(b) /\ ~IsInf(b) /\ b.m = <<>> THEN Raised("ZeroDivisionError")
    ELSE IF IsNaN(a) \/ IsNaN(b) THEN FNaN
    ELSE IF IsInf(a) THEN IF IsInf(b) THEN FNaN ELSE FInf(a.neg # b.neg)
    ELSE IF IsInf(b) \/ a.m = <<>> THEN FZero
    ELSE LET k0 == MantBits + 3 + BBitLen(b.m) - BBitLen(a.m)
             k == IF k0 < 0 THEN 0 ELSE k0
             qr == BDivMod(BShl(a.m, k), b.m)
             m == IF qr[2] = <<>> THEN BShl(qr[1], 1)
                  ELSE BAdd(BShl(qr[1], 1), <<1>>)
         IN FRound(a.neg # b.neg, m, a.e - b.e - k - 1)

\* a < b: false when a or b is nan
FLess(a, b) ==
    IF IsNaN(a) \/ IsNaN(b) THEN FALSE
    ELSE IF IsInf(a) THEN a.neg /\ ~(IsInf(b) /\ b.neg)
    ELSE IF IsInf(b) THEN ~b.neg
    ELSE LET e == IF a.e < b.e THEN a.e ELSE b.e
             ma == BShl(a.m, a.e - e)
             mb == BShl(b.m, b.e - e)
         IN IF a.neg /\ ~b.neg THEN TRUE
            ELSE IF ~a.neg /\ b.neg THEN FALSE
            ELSE IF a.neg THEN BLess(mb, ma)
            ELSE BLess(ma, mb)

\* a <= b: false when a or b is nan
FLeq(a, b) == ~IsNaN(a) /\ ~IsNaN(b) /\ ~FLess(b, a)

\* int(a) for finite a: truncation towards zero
FTrunc(a) ==
    LET mag == IF a.e >= 0 THEN BToNat(BShl(a.m, a.e))
               ELSE BToNat(BShr(a.m, -a.e))
    IN IF a.neg THEN -mag ELSE mag

\* abs(a)
FAbs(a) == IF IsNaN(a) THEN a ELSE [a EXCEPT !.neg = FALSE]

\* min(a, b)
FMin(a, b) == IF FLess(b, a) THEN b ELSE a

\* the float literal n/d as Python reads it: the double nearest to n/d
FDec(n, d) == FDiv(FInt(n), FInt(d))

(***************************************************************************)
(* The tables of the decoding collaborator.                                *)
(***************************************************************************)
\* steam ids as str(row.get(...)): "A", "B", and "0" for the world / no
\* attacker
NameOf(id) == IF id = "A" THEN "alice" ELSE IF id = "B" THEN "bob" ELSE "world"
TeamNameOf(id) ==
    IF id = "A" THEN STR_CT ELSE IF id = "B" THEN STR_TERRORIST ELSE <<>>

DeathRow(t, a, v, hs) ==
    [tick |-> t,
     attacker_steamid |-> a, attacker_name |-> NameOf(a),
     attacker_team_name |-> TeamNameOf(a),
     user_steamid |-> v, user_name |-> NameOf(v),
     user_team_name |-> TeamNameOf(v),
     weapon |-> "ak47", headshot |-> hs]

\* player_death rows fed in: at tick 1500 (inside the rounds ending at 2500
\* and 4000, before the start of none) both players known in both
\* directions, a suicide, an unknown attacker, an unknown victim; at tick
\* 9500 (past every round end) both players known
DeathRows ==
    { DeathRow(1500, "A", "B", TRUE), DeathRow(1500, "B", "A", FALSE),
      DeathRow(1500, "A", "A", FALSE), DeathRow(1500, "0", "A", FALSE),
      DeathRow(1500, "B", "0", TRUE),
      DeathRow(9500, "A", "B", TRUE), DeathRow(9500, "B", "A", FALSE) }

\* round_end rows fed in: the ticks of the spec's scenario A, in any order
\* and with repetition
RoundEndRows ==
    { [tick |-> 1000, winner |-> STR_CT],
      [tick |-> 2500, winner |-> STR_TERRORIST],
      [tick |-> 4000, winner |-> <<>>] }

SeqsUpTo(S, n) == UNION { [1..k -> S] : k \in 0..n }

(***************************************************************************)
(* State.                                                                  *)
(***************************************************************************)
VARIABLES
    death_df,       \* the player_death table parse_event returns
    round_end_df,   \* the round_end table parse_event returns
    pc,             \* position of DemoParserWrapper.parse
    match,          \* DemoParserWrapper.match (NoMatch is None)
    failed_call,    \* the call of the decoder that raised ("none": none did)
    raised_exc,     \* the exception parse() raised to its caller ("none": none)
    workers,        \* ParserManager.workers: the demo paths it holds a worker for
    worker,         \* per demo path, the ParserWorker last created for it
    signals,        \* terminal signals emitted and not yet delivered to slots
    team_in,        \* the raw team string handed to _parse_team
    team_out,       \* what the call ended with (NoTeam before the call)
    frames,                  \* DemoViewer.frames
    current_frame_index,     \* DemoViewer.current_frame_index
    is_playing,              \* DemoViewer.is_playing (the timer runs iff TRUE)
    playback_speed,          \* DemoViewer.playback_speed
    interpolation_progress,  \* DemoViewer.interpolation_progress
    interpolated_frame,      \* DemoViewer.interpolated_frame (NoFrame is None)
    canvas_frame,            \* MapCanvas.current_frame (NoFrame is None)
    viewer_exc,              \* the exception the last call on the viewer ended
                             \* with ("none": it returned)
    map_bounds,     \* the MapBounds handed to the transforms
    image_size,     \* <<image_width, image_height>>
    world_pt,       \* the world point <<x, y>> handed to world_to_radar
    radar_pt,       \* what world_to_radar returned (NoPoint before the call)
    back_pt,        \* what radar_to_world returned (NoPoint before the call)
    map_configs,    \* the MapBounds objects MAP_CONFIGS holds, per key
    cal_map_name,   \* CalibrationWindow.map_name
    spins,          \* the values of the five spin boxes of the tool
    cal_renderer,   \* CalibrationWindow.renderer
    test_points,    \* screen positions of CalibrationWindow.test_points
    consumer,       \* the MapRenderer of another consumer (NoRenderer: none)
    lookup_name,    \* the name last handed to get_map_config by a caller
    lookup_out,     \* the bounds it returned (NoPoint before the call)
    stats_match,    \* DataProcessor.match (NoMatch: no processor made)
    sort_field,     \* the sort_by of the last get_leaderboard ("" before)
    leaderboard,    \* what get_leaderboard returned
    weapon_table,   \* what get_weapon_stats returned (empty before)
    parse_result,   \* the dict handed to create_match_from_parse_result
    built           \* the Match it returned (NoBuilt before the call)

ivars == <<death_df, round_end_df, pc, match, failed_call, raised_exc>>
wvars == <<workers, worker, signals>>
tvars == <<team_in, team_out>>
pvars == <<frames, current_frame_index, is_playing, playback_speed,
           interpolation_progress, interpolated_frame, canvas_frame,
           viewer_exc>>
mvars == <<map_bounds, image_size, world_pt, radar_pt, back_pt>>
cvars == <<map_configs, cal_map_name, spins, cal_renderer, test_points,
           consumer, lookup_name, lookup_out>>
svars == <<stats_match, sort_field, leaderboard, weapon_table>>
bvars == <<parse_result, built>>
vars == <<ivars, wvars, tvars, pvars, mvars, cvars, svars, bvars>>

NoMatch == [none |-> TRUE]

\* Match(demo_path=..., map_name=..., demo_type=..., server_name=...,
\* tick_rate=...) of lines 48-54: the dataclass Match (models.py:274-321) has
\* no field demo_path, its __init__ raises TypeError
NewMatch(header) == Raised("TypeError")

\* Player(steam_id=..., name=..., team=...) of lines 131-135: the dataclass
\* Player (models.py:11-29) names the field steamid, its __init__ raises
\* TypeError
NewPlayer(name, team) == Raised("TypeError")

(***************************************************************************)
(* DemoParserWrapper._parse_players                                        *)
(***************************************************************************)
\* one pass of `for idx, row in df.iterrows()` over the attacker columns:
\* the registry after it, or the exception the call of _parse_team for the
\* first new id ends the pass with
RECURSIVE AddAttackers(_, _, _)
AddAttackers(df, i, reg) ==
    IF i > Len(df) THEN reg
    ELSE LET row == df[i]
             steam_id == row.attacker_steamid
             team == _parse_team(row.attacker_team_name)
         IN IF steam_id # "" /\ steam_id # "0" /\ steam_id \notin DOMAIN reg.data
            THEN IF IsRaised(team) THEN team
                 ELSE AddAttackers(df, i + 1,
                         [data |-> reg.data @@
                                     (steam_id :> [name |-> row.attacker_name,
                                                   team |-> team]),
                          order |-> Append(reg.order, steam_id)])
            ELSE AddAttackers(df, i + 1, reg)

\* one pass of `for idx, row in df.iterrows()` over the victim columns, in
\* the same way; the pass is not reached when the attacker loop raised
RECURSIVE AddVictims(_, _, _)
AddVictims(df, i, reg) ==
    IF IsRaised(reg) THEN reg
    ELSE IF i > Len(df) THEN reg
    ELSE LET row == df[i]
             steam_id == row.user_steamid
             team == _parse_team(row.user_team_name)
         IN IF steam_id # "" /\ steam_id # "0" /\ steam_id \notin DOMAIN reg.data
            THEN IF IsRaised(team) THEN team
                 ELSE AddVictims(df, i + 1,
                         [data |-> reg.data @@
                                     (steam_id :> [name |-> row.user_name,
                                                   team |-> team]),
                          order |-> Append(reg.order, steam_id)])
            ELSE AddVictims(df, i + 1, reg)

\* unique_players after both column loops (each loop body runs once per
\* column present; repeating a pass adds nothing, the ids are already in),
\* or the exception the first loop that meets a valid id ends with
unique_players(df) ==
    AddVictims(df, 1, AddAttackers(df, 1, [data |-> <<>>, order |-> <<>>]))

\* lines 138-144: the ids of order whose player is of the side `team`, or
\* the exception the comparison with Team.T / Team.CT raises for the first
\* player
RECURSIVE TeamList(_, _, _, _)
TeamList(order, data, team, i) ==
    IF i > Len(order) THEN <<>>
    ELSE IF IsRaised(TeamMember(team)) THEN TeamMember(team)
    ELSE IF data[order[i]].team = TeamMember(team)
         THEN <<order[i]>> \o TeamList(order, data, team, i + 1)
         ELSE TeamList(order, data, team, i + 1)

\* the Match after _parse_players has run on table df, or the exception it
\* ends with: _parse_team raises for the first valid id of the table; with
\* no valid id the registry is empty and the loop of line 130 has no turn
_parse_players(m, df) ==
    IF Len(df) = 0 THEN m
    ELSE LET u == unique_players(df) IN
         IF IsRaised(u) THEN u
         ELSE IF u.order = <<>> THEN m
         ELSE LET first == u.data[u.order[1]] IN
              IF IsRaised(NewPlayer(first.name, first.team))
              THEN NewPlayer(first.name, first.team)
              ELSE [m EXCEPT
                      !.players = [id \in DOMAIN u.data |->
                                      NewPlayer(u.data[id].name, u.data[id].team)],
                      !.player_order = u.order,
                      !.t_players = TeamList(u.order, u.data, "T", 1),
                      !.ct_players = TeamList(u.order, u.data, "CT", 1)]

(***************************************************************************)
(* DemoParserWrapper._parse_kills_for_round, _parse_round, _parse_rounds   *)
(***************************************************************************)
\* the test of line 209: the kill's tick lies in the round's range
InRound(round_obj, tick) ==
    round_obj.start_tick <= tick /\ tick <= round_obj.end_tick

\* Kill(tick=..., time_seconds=..., killer=..., victim=..., weapon=...,
\* is_headshot=..., is_wallbang=...) of lines 223-231: the dataclass Kill
\* (models.py:174-204) has none of time_seconds, killer, victim, is_headshot
\* and is_wallbang, its __init__ raises TypeError
NewKill(row) == Raised("TypeError")

\* lines 236-239: the counters of the attacker and the victim of one kill
CountKill(players, kill) ==
    LET p1 == [players EXCEPT
                 ![kill.killer].kills = @ + 1,
                 ![kill.killer].headshots = IF kill.is_headshot THEN @ + 1 ELSE @]
    IN [p1 EXCEPT ![kill.victim].deaths = @ + 1]

\* the loop of lines 204-243 from row i on; acc holds the list `kills` and
\* the registry as the rows before i left them.  An exception in the body
\* is caught at line 241 and the loop goes on with the next row
RECURSIVE KillLoop(_, _, _, _)
KillLoop(round_obj, kills_df, i, acc) ==
    IF i > Len(kills_df) THEN acc
    ELSE LET row == kills_df[i] IN
         IF ~InRound(round_obj, row.tick)
         THEN KillLoop(round_obj, kills_df, i + 1, acc)
         ELSE IF row.attacker_steamid \notin DOMAIN acc.players
                 \/ row.user_steamid \notin DOMAIN acc.players
         THEN KillLoop(round_obj, kills_df, i + 1, acc)
         ELSE IF IsRaised(NewKill(row))
         THEN KillLoop(round_obj, kills_df, i + 1, acc)
         ELSE KillLoop(round_obj, kills_df, i + 1,
                       [kills |-> Append(acc.kills, NewKill(row)),
                        players |-> CountKill(acc.players, NewKill(row))])

_parse_kills_for_round(round_obj, kills_df, players) ==
    KillLoop(round_obj, kills_df, 1, [kills |-> <<>>, players |-> players])

\* Round(number=..., start_tick=..., end_tick=..., winner=...,
\* end_reason=..., duration_seconds=...) of lines 180-187: the dataclass
\* Round (models.py:123-152) has none of number, end_reason and
\* duration_seconds, its __init__ raises TypeError
NewRound(round_num, round_data) == Raised("TypeError")

\* _parse_round returned None
NoRound == [none |-> TRUE]

\* _parse_round: the round object and the registry after it; an exception
\* in the body (the first is that of _parse_team, line 177) is caught at
\* line 196 and None returned
_parse_round(round_num, round_data, kills_df, players) ==
    LET winner_team == _parse_team(round_data.winner)
        round_obj == NewRound(round_num, round_data) IN
    IF IsRaised(winner_team) THEN [round |-> NoRound, players |-> players]
    ELSE IF IsRaised(round_obj) THEN [round |-> NoRound, players |-> players]
    ELSE IF Len(kills_df) # 0
    THEN LET r == _parse_kills_for_round(round_obj, kills_df, players)
         IN [round |-> [round_obj EXCEPT !.kills = r.kills], players |-> r.players]
    ELSE [round |-> round_obj, players |-> players]

\* how many rounds of rs the loop of lines 275-279 counts for the side
\* `team`, or the exception the comparison with Team.T / Team.CT raises for
\* the first round
RECURSIVE CountWins(_, _)
CountWins(rs, team) ==
    IF Len(rs) = 0 THEN 0
    ELSE IF IsRaised(TeamMember(team)) THEN TeamMember(team)
    ELSE (IF rs[1].winner = TeamMember(team) THEN 1 ELSE 0)
         + CountWins(Tail(rs), team)

\* _update_match_score: the Match with its score, or the exception the
\* first turn of the loop raises
_update_match_score(m) ==
    IF Len(m.rounds) = 0 THEN m
    ELSE LET t == CountWins(m.rounds, "T")
             ct == CountWins(m.rounds, "CT") IN
         IF IsRaised(t) THEN t
         ELSE [m EXCEPT !.t_score = @ + t, !.ct_score = @ + ct]

\* the loop of lines 163-166 from row i on
RECURSIVE RoundLoop(_, _, _, _)
RoundLoop(m, rounds_df, kills_df, i) ==
    IF i > Len(rounds_df) THEN m
    ELSE LET r == _parse_round(i, rounds_df[i], kills_df, m.players)
         IN RoundLoop([m EXCEPT
                         !.players = r.players,
                         !.rounds = IF r.round = NoRound THEN @
                                    ELSE Append(@, r.round)],
                      rounds_df, kills_df, i + 1)

\* the Match after _parse_rounds; an empty round_end table returns at 157
_parse_rounds(m, rounds_df, kills_df) ==
    IF Len(rounds_df) = 0 THEN m
    ELSE _update_match_score(RoundLoop(m, rounds_df, kills_df, 1))

(***************************************************************************)
(* DemoParserWrapper.parse.  DemoParser(path) and parse_header() are calls *)
(* of the decoding collaborator, each with a second action in which the    *)
(* call raises.  The parse_event calls of lines 99, 153 and 160 come after *)
(* Match(...), which raises.                                               *)
(***************************************************************************)
\* what parser.parse_header() can hand over
Headers == { [map_name |-> "de_dust2", tick_rate |-> DefaultTickRate] }
\* the dict _parse_header returns when parse_header() raises
DefaultHeader == [map_name |-> "unknown", tick_rate |-> DefaultTickRate]

\* parse() with an except clause that logs the exception and does not
\* re-raise it: the call returns
parse_NoReraise(header, kills_df, rounds_df) ==
    LET m == NewMatch(header) IN
    IF IsRaised(m)
    THEN [pc |-> "done", match |-> NoMatch, exc |-> "none"]
    ELSE [pc |-> "done", match |-> m, exc |-> "none"]

\* lines 48-70, from the header on: where parse() ends, what self.match
\* holds then and the exception line 70 re-raises.  self.match is assigned
\* when Match(...) has returned
parse(header, kills_df, rounds_df) ==
    LET m == NewMatch(header) IN
    IF IsRaised(m)
    THEN [pc |-> "raised", match |-> NoMatch, exc |-> m.raised]
    ELSE LET with_players == _parse_players(m, kills_df) IN
         IF IsRaised(with_players)
         THEN [pc |-> "raised", match |-> m, exc |-> with_players.raised]
         ELSE LET with_rounds == _parse_rounds(with_players, rounds_df, kills_df) IN
              IF IsRaised(with_rounds)
              THEN [pc |-> "raised", match |-> with_players,
                    exc |-> with_rounds.raised]
              ELSE [pc |-> "done", match |-> with_rounds, exc |-> "none"]

\* what parse() leaves alone: the worker and its manager, the viewer, the
\* coordinate transforms
IngestFrame ==
    UNCHANGED <<wvars, tvars, pvars, mvars, cvars, svars, bvars>>

IngestInit ==
    /\ death_df \in SeqsUpTo(DeathRows, MaxDeaths)
    /\ round_end_df \in SeqsUpTo(RoundEndRows, MaxRounds)
    /\ pc = "start"
    /\ match = NoMatch
    /\ failed_call = "none"
    /\ raised_exc = "none"

\* line 42: DemoParser(path)
OpenDemo ==
    /\ pc = "start"
    /\ pc' = "header"
    /\ UNCHANGED <<death_df, round_end_df, match, failed_call, raised_exc>>
    /\ IngestFrame

\* line 42 raising: parse() re-raises the decoder's exception at line 70
OpenDemoFails ==
    /\ pc = "start"
    /\ pc' = "raised"
    /\ failed_call' = "DemoParser"
    /\ raised_exc' = "DecoderError"
    /\ UNCHANGED <<death_df, round_end_df, match>>
    /\ IngestFrame

\* lines 45-70 with parse_header() returning
ParseHeader ==
    /\ pc = "header"
    /\ \E header \in Headers :
          \E end \in { parse(header, death_df, round_end_df) } :
              /\ pc' = end.pc
              /\ match' = end.match
              /\ raised_exc' = end.exc
    /\ UNCHANGED <<death_df, round_end_df, failed_call>>
    /\ IngestFrame

\* lines 45-70 with parse_header() raising: _parse_header returns the
\* defaults (lines 84-91) and parse() goes on with them
ParseHeaderFails ==
    /\ pc = "header"
    /\ \E end \in { parse(DefaultHeader, death_df, round_end_df) } :
          /\ pc' = end.pc
          /\ match' = end.match
          /\ raised_exc' = end.exc
    /\ failed_call' = "parse_header"
    /\ UNCHANGED <<death_df, round_end_df>>
    /\ IngestFrame

IngestNext ==
    \/ OpenDemo
    \/ OpenDemoFails
    \/ ParseHeader
    \/ ParseHeaderFails

(***************************************************************************)
(* DataProcessor.get_player_stats.  Each division is guarded by the test   *)
(* of its divisor, as in the code.                                         *)
(***************************************************************************)
\* self.match.get_player(steam_id), line 23: the class Match
\* (models.py:274-358) has no method get_player, the lookup raises
\* AttributeError
get_player(m, steam_id) == Raised("AttributeError")

\* DataProcessor.get_player_stats, lines 16-50
get_player_stats(m, steam_id) ==
    LET player == get_player(m, steam_id) IN
    IF IsRaised(player) THEN player
    ELSE
    [steam_id |-> player.steam_id,
     name |-> player.name,
     team |-> player.team,
     kills |-> player.kills,
     deaths |-> player.deaths,
     assists |-> player.assists,
     headshots |-> player.headshots,
     damage_dealt |-> player.damage_dealt,
     damage_taken |-> player.damage_taken,
     kd_ratio |-> IF player.deaths > 0
                  THEN FDiv(FInt(player.kills), FInt(player.deaths))
                  ELSE FInt(player.kills),
     hs_percentage |-> IF player.kills > 0
                       THEN FMul(FDiv(FInt(player.headshots),
                                      FInt(player.kills)), FInt(100))
                       ELSE FZero,
     adr |-> IF Len(m.rounds) # 0
             THEN FDiv(FInt(player.damage_dealt), FInt(Len(m.rounds)))
             ELSE FZero,
     rounds_played |-> Len(m.rounds)]

(***************************************************************************)
(* ParserWorker and ParserManager (src/src/gui/parser_worker.py).          *)
(* The worker runs on its own thread; cancel() and the manager's methods   *)
(* run on the GUI thread, so every step of the worker interleaves with     *)
(* them.                                                                   *)
(***************************************************************************)
DemoPaths == {"a.dem", "b.dem"}

NoWorker ==
    [pc |-> "none", is_cancelled |-> FALSE,
     on_completed |-> FALSE, on_error |-> FALSE,
     saved |-> FALSE, completed_emitted |-> FALSE, error_emitted |-> FALSE]

\* ParserWorker.__init__ and the connections parse_demo makes for it
NewWorker(on_completed, on_error) ==
    [NoWorker EXCEPT !.pc = "created",
                     !.on_completed = on_completed, !.on_error = on_error]

\* what the ingestion pipeline leaves alone, and the other way round
WorkerFrame ==
    UNCHANGED <<ivars, tvars, pvars, mvars, cvars, svars, bvars>>

WorkerInit ==
    /\ workers = {}
    /\ worker = [p \in DemoPaths |-> NoWorker]
    /\ signals = <<>>

\* ParserManager.parse_demo, lines 179-217
parse_demo(demo_path, on_completed, on_error) ==
    /\ IF demo_path \in workers
       THEN UNCHANGED <<workers, worker>>
       ELSE /\ worker' = [worker EXCEPT ![demo_path] = NewWorker(on_completed, on_error)]
            /\ workers' = workers \cup {demo_path}
    /\ UNCHANGED signals
    /\ WorkerFrame

\* ParserWorker.cancel, lines 127-130
cancel(w) == [w EXCEPT !.is_cancelled = TRUE]

\* worker.cancel() on the worker parse_demo returned for demo_path, which
\* the caller holds also after the worker has left the table
Cancel(demo_path) ==
    /\ worker[demo_path].pc # "none"
    /\ worker' = [worker EXCEPT ![demo_path] = cancel(@)]
    /\ UNCHANGED <<workers, signals>>
    /\ WorkerFrame

\* ParserManager.cancel_demo, lines 219-224
cancel_demo(demo_path) ==
    /\ demo_path \in workers
    /\ worker' = [worker EXCEPT ![demo_path] = cancel(@)]
    /\ UNCHANGED <<workers, signals>>
    /\ WorkerFrame

\* ParserManager.cancel_all, lines 226-230: cancel_demo for every path of
\* the table, in one call
cancel_all ==
    /\ workers # {}
    /\ worker' = [p \in DemoPaths |->
                     IF p \in workers THEN cancel(worker[p]) ELSE worker[p]]
    /\ UNCHANGED <<workers, signals>>
    /\ WorkerFrame

\* lines 63-70: the parser object is made and parse_started emitted
WorkerStart(p) ==
    /\ worker[p].pc = "created"
    /\ worker' = [worker EXCEPT ![p].pc = "parsing"]
    /\ UNCHANGED <<workers, signals>>
    /\ WorkerFrame

\* line 67 raising (FileNotFoundError): lines 116-119 emit parse_error
WorkerStartFails(p) ==
    /\ worker[p].pc = "created"
    /\ worker' = [worker EXCEPT ![p].pc = "finished", ![p].error_emitted = TRUE]
    /\ signals' = Append(signals, [path |-> p, kind |-> "error"])
    /\ UNCHANGED workers
    /\ WorkerFrame

\* line 73: parser.parse(progress_callback=self._on_progress) against
\* DemoParserWrapper.parse(self) (demo_parser.py:33) raises TypeError, the
\* wrapper of utils/logger.py:76-88 passing the keyword on; lines 116-119
\* emit parse_error.  Lines 75-114 (the test of is_cancelled, the Match,
\* save_match, parse_completed) are not reached
WorkerParseRaises(p) ==
    /\ worker[p].pc = "parsing"
    /\ worker' = [worker EXCEPT ![p].pc = "finished", ![p].error_emitted = TRUE]
    /\ signals' = Append(signals, [path |-> p, kind |-> "error"])
    /\ UNCHANGED workers
    /\ WorkerFrame

\* ParserManager._on_worker_finished, lines 232-236
_on_worker_finished(demo_path) ==
    workers' = workers \ {demo_path}

\* ParserManager.is_parsing() without a path, lines 253-255
is_parsing == workers # {}

\* the GUI thread delivers the oldest pending signal to the slots connected
\* at lines 192-197
DeliverSignal ==
    /\ Len(signals) > 0
    /\ LET sig == Head(signals)
           connected == IF sig.kind = "completed"
                        THEN worker[sig.path].on_completed
                        ELSE worker[sig.path].on_error
       IN IF connected
          THEN _on_worker_finished(sig.path)
          ELSE UNCHANGED workers
    /\ signals' = Tail(signals)
    /\ UNCHANGED worker
    /\ WorkerFrame

WorkerNext ==
    \/ \E p \in DemoPaths, c, e \in BOOLEAN : parse_demo(p, c, e)
    \/ \E p \in DemoPaths : cancel_demo(p)
    \/ cancel_all
    \/ \E p \in DemoPaths : Cancel(p)
    \/ \E p \in DemoPaths : WorkerStart(p)
    \/ \E p \in DemoPaths : WorkerStartFails(p)
    \/ \E p \in DemoPaths : WorkerParseRaises(p)
    \/ DeliverSignal

(***************************************************************************)
(* DemoParserWrapper._parse_team on its own: the raw team strings of the   *)
(* decoder, one call.                                                      *)
(***************************************************************************)
\* longest raw team string built from TeamAlphabet
MaxTeamLen == 3

TeamAlphabet == {"T", "C", "S", "c", "t"}

STR_SPECTATOR == <<"S","P","E","C","T","A","T","O","R">>

\* raw team strings: the names the decoder uses, in both cases, a string
\* holding two keywords, strings holding none, strings upper() lengthens
\* or raises outside ASCII, and every string over TeamAlphabet up to
\* MaxTeamLen
RawTeams ==
    { STR_TERRORIST, STR_CT, STR_SPECTATOR, STR_T, STR_SPEC, STR_COUNTER,
      <<"T","e","r","r","o","r","i","s","t">>,
      <<"S","p","e","c","t","a","t","o","r">>,
      <<"s","p","e","c">>,
      <<"C","O","U","N","T","E","R","-","T","E","R","R","O","R","I","S","T">>,
      <<"U","n","a","s","s","i","g","n","e","d">>,
      <<"N","o","n","e">>,
      <<"n","a","n">>,
      <<"c","o","u","n","t","e","r","-","t","é","r","r","o","r","i","s","t">>,
      <<"s","t","r","a","ß","e">>,
      <<"U+FB01","t">> }
    \cup SeqsUpTo(TeamAlphabet, MaxTeamLen)

\* no call of _parse_team made yet
NoTeam == [none |-> TRUE]

TeamFrame ==
    UNCHANGED <<ivars, wvars, pvars, mvars, cvars, svars, bvars>>

TeamInit ==
    /\ team_in \in RawTeams
    /\ team_out = NoTeam

\* one call _parse_team(team_in)
ParseTeam ==
    /\ team_out = NoTeam
    /\ team_out' = _parse_team(team_in)
    /\ UNCHANGED team_in
    /\ TeamFrame

TeamNext == ParseTeam

TeamIdle ==
    /\ team_in = <<>>
    /\ team_out = NoTeam

(***************************************************************************)
(* DemoViewer (src/src/gui/demo_viewer.py): the frame list, the playback   *)
(* position and the frame handed to the canvas.  Frame indexes are those   *)
(* of the code (from 0); frames[i + 1] is the code's frames[i].  The       *)
(* fraction, the speed, the coordinates and the angles are Python floats.  *)
(***************************************************************************)
\* longest frame list load_match is handed
MaxFrames == 3
\* demo_viewer.py:320  self.render_fps = 60
render_fps == 60
\* demo_viewer.py:323  self.game_fps = 4
game_fps == 4

\* self.interpolated_frame = None, MapCanvas.current_frame = None
NoFrame == [none |-> TRUE]

\* PlayerFrame(tick, player, position, view_angle, health, armor, is_alive,
\* active_weapon)
PlayerFrame(tick, steam_id, x, y, z, view_angle, health) ==
    [tick |-> tick, steam_id |-> steam_id,
     position |-> [x |-> x, y |-> y, z |-> z],
     view_angle |-> view_angle, health |-> health, armor |-> 100,
     is_alive |-> health > 0, active_weapon |-> "ak47"]

\* GameFrame(tick, round_number, players)
GameFrame(tick, players) ==
    [tick |-> tick, round_number |-> 1, players |-> players]

\* the samples fed in: B and A; A alone (B absent), A's view angle turning
\* from 350 through 0 to 10 (and back when the samples come the other way
\* round)
GameFrames ==
    { GameFrame(0,
        << PlayerFrame(0, "B", FInt(100), FInt(-100), FInt(64), FInt(90), 50),
           PlayerFrame(0, "A", FInt(0), FInt(0), FInt(0), FInt(350), 100) >>),
      GameFrame(16,
        << PlayerFrame(16, "A", FInt(300), FInt(150), FInt(0), FInt(10), 80) >>) }

\* the frame lists load_match is handed: no sample twice in a row
FrameLists ==
    { fl \in SeqsUpTo(GameFrames, MaxFrames) :
        \A i \in 1..(Len(fl) - 1) : fl[i] # fl[i + 1] }

\* the multipliers of the speed buttons (widgets/playback_controls.py:60-71)
ButtonSpeeds == { FDec(1, 2), FInt(1), FInt(2) }

\* a positive multiplier set_speed accepts like any other float: 1e-18
SlowSpeed ==
    FDiv(FInt(1), FMul(FInt(1000000000), FInt(1000000000)))

\* positive multipliers below 2^-1022: 5e-324, the smallest double, and
\* 1e-320
SubnormalSpeeds ==
    { FCanon(FALSE, <<1>>, MinExp), FCanon(FALSE, <<2024>>, MinExp) }

\* the multipliers set_speed is handed while the viewer is used freely
Speeds == { FInt(0) } \cup ButtonSpeeds

\* the fractions set_progress is handed: values of the slider
\* (playback_controls.py:179, value / 1000.0), one below its range and one
\* above it, and floats int() has no value for or seek no sample: nan,
\* and 2^1023, whose product is 0.0 with one sample, 2^1023 with two and
\* inf with more
Progresses ==
    { FDec(-1, 2), FDec(290, 1000), FInt(1), FDec(3, 2),
      FNaN, FCanon(FALSE, <<1>>, MaxExp - 1) }

\* the viewer's fields as one value, so that a method calling another is a
\* composition
Viewer ==
    [frames |-> frames,
     current_frame_index |-> current_frame_index,
     is_playing |-> is_playing,
     playback_speed |-> playback_speed,
     interpolation_progress |-> interpolation_progress,
     interpolated_frame |-> interpolated_frame,
     canvas_frame |-> canvas_frame]

\* DemoViewer.__init__
NewViewer ==
    [frames |-> <<>>,
     current_frame_index |-> 0,
     is_playing |-> FALSE,
     playback_speed |-> FInt(1),
     interpolation_progress |-> FZero,
     interpolated_frame |-> NoFrame,
     canvas_frame |-> NoFrame]

\* a call that raises: the viewer as the call leaves it, with the exception
Raising(v, kind) == [raised |-> kind] @@ v

\* the viewer a call leaves behind, whether it returned or raised
After(v) == [f \in DOMAIN NewViewer |-> v[f]]

\* DemoViewer._show_frame
_show_frame(v, index) ==
    IF 0 <= index /\ index < Len(v.frames)
    THEN [v EXCEPT !.current_frame_index = index,
                   !.canvas_frame = v.frames[index + 1]]
    ELSE v

\* DemoViewer.load_match, to the point where it ends: lines 365-367 assign
\* match, frames and current_frame_index; line 370 calls
\* canvas.load_map(match.map_name), which builds
\* MapRenderer(map_name, self.width(), self.height()) (demo_viewer.py:51-55)
\* against MapRenderer.__init__(self, map_name, assets_dir)
\* (map_renderer.py:25) and raises TypeError, so _show_frame(0) of line 374
\* is not reached and the canvas keeps its frame
load_match(v, fl) ==
    Raising([v EXCEPT !.frames = fl, !.current_frame_index = 0], "TypeError")

\* DemoViewer.play
play(v) ==
    IF v.frames = <<>> THEN v ELSE [v EXCEPT !.is_playing = TRUE]

\* DemoViewer.set_speed
set_speed(v, speed) == [v EXCEPT !.playback_speed = speed]

\* DemoViewer.pause
pause(v) == [v EXCEPT !.is_playing = FALSE]

\* seek without the range test of line 438
seek_NoGuard(v, frame_index) ==
    _show_frame([v EXCEPT !.current_frame_index = frame_index,
                          !.interpolation_progress = FZero],
                frame_index)

\* DemoViewer.seek
seek(v, frame_index) ==
    IF 0 <= frame_index /\ frame_index < Len(v.frames)
    THEN _show_frame([v EXCEPT !.current_frame_index = frame_index,
                               !.interpolation_progress = FZero],
                     frame_index)
    ELSE v

\* DemoViewer.stop
stop(v) == seek(pause(v), 0)

\* DemoViewer.set_progress: int(progress * (len(self.frames) - 1)), the
\* product a float; int(nan) raises ValueError and int(inf) OverflowError,
\* and seek leaves the viewer as it is for every index from 2^30 on and
\* for every index below zero
set_progress(v, progress) ==
    IF v.frames = <<>> THEN v
    ELSE LET p == FMul(progress, FInt(Len(v.frames) - 1))
         IN IF IsNaN(p) THEN Raising(v, "ValueError")
            ELSE IF IsInf(p) THEN Raising(v, "OverflowError")
            ELSE IF FLeq(FCanon(FALSE, <<1>>, 30), FAbs(p))
                 THEN seek(v, IF p.neg THEN -1 ELSE Len(v.frames))
            ELSE seek(v, FTrunc(p))

\* DemoViewer.get_progress: the division of line 547 raises
\* ZeroDivisionError on a list of one frame
get_progress(v) ==
    IF v.frames = <<>> THEN FZero
    ELSE IF Len(v.frames) - 1 = 0 THEN Raised("ZeroDivisionError")
    ELSE FDiv(FInt(v.current_frame_index), FInt(Len(v.frames) - 1))

\* the `for npf in next_frame.players` search: the position of the first
\* player frame with that steam id, 0 when there is none (next_pf is None)
FindNext(players, steam_id) ==
    IF \E k \in 1..Len(players) : players[k].steam_id = steam_id
    THEN CHOOSE k \in 1..Len(players) :
            /\ players[k].steam_id = steam_id
            /\ \A j \in 1..(k - 1) : players[j].steam_id # steam_id
    ELSE 0

\* the two while loops bringing angle_diff into [-180, 180]
RECURSIVE NormalizeAngleDiff(_)
NormalizeAngleDiff(d) ==
    IF FLess(FInt(180), d) THEN NormalizeAngleDiff(FSub(d, FInt(360)))
    ELSE IF FLess(d, FInt(-180)) THEN NormalizeAngleDiff(FAdd(d, FInt(360)))
    ELSE d

\* a + (b - a) * t
Lerp(a, b, t) == FAdd(a, FMul(FSub(b, a), t))

\* the body of `for current_pf in current.players`
InterpolatePlayer(current, next_frame, current_pf, t) ==
    LET k == FindNext(next_frame.players, current_pf.steam_id) IN
    IF k = 0 THEN current_pf
    ELSE LET next_pf == next_frame.players[k]
             angle_diff == NormalizeAngleDiff(
                               FSub(next_pf.view_angle, current_pf.view_angle))
         IN [tick |-> current.tick, steam_id |-> current_pf.steam_id,
             position |->
                 [x |-> Lerp(current_pf.position.x, next_pf.position.x, t),
                  y |-> Lerp(current_pf.position.y, next_pf.position.y, t),
                  z |-> Lerp(current_pf.position.z, next_pf.position.z, t)],
             view_angle |-> FAdd(current_pf.view_angle, FMul(angle_diff, t)),
             health |-> current_pf.health, armor |-> current_pf.armor,
             is_alive |-> current_pf.is_alive,
             active_weapon |-> current_pf.active_weapon]

\* line 483, from ..core.models import GameFrame, PlayerFrame, Position:
\* core/models.py defines none of the three, the import raises ImportError
ImportFrameClasses == Raised("ImportError")

\* the frame of lines 485-533: the players of the current sample, each
\* interpolated towards the next sample
InterpolatedFrame(v) ==
    LET current == v.frames[v.current_frame_index + 1]
        next_frame == v.frames[v.current_frame_index + 2]
    IN [tick |-> current.tick, round_number |-> current.round_number,
        players |->
            [i \in 1..Len(current.players) |->
                InterpolatePlayer(current, next_frame, current.players[i],
                                  v.interpolation_progress)]]

\* DemoViewer._create_interpolated_frame: at or past the last sample the
\* sample itself is shown (lines 474-477, frames[current_frame_index]
\* raising IndexError past the list); before it the import of line 483
\* raises and neither interpolated_frame nor the canvas is assigned
_create_interpolated_frame(v) ==
    IF v.current_frame_index >= Len(v.frames) - 1
    THEN IF v.current_frame_index >= Len(v.frames)
         THEN Raising(v, "IndexError")
         ELSE [v EXCEPT
                 !.interpolated_frame = v.frames[v.current_frame_index + 1],
                 !.canvas_frame = v.frames[v.current_frame_index + 1]]
    ELSE IF IsRaised(ImportFrameClasses)
         THEN Raising(v, ImportFrameClasses.raised)
         ELSE [v EXCEPT !.interpolated_frame = InterpolatedFrame(v),
                        !.canvas_frame = InterpolatedFrame(v)]

\* steps_per_frame = self.render_fps / self.game_fps
steps_per_frame == FDiv(FInt(render_fps), FInt(game_fps))

\* step_size = 1.0 / steps_per_frame
step_size == FDiv(FInt(1), steps_per_frame)

\* self.interpolation_progress += step_size * self.playback_speed
Stepped(v) == FAdd(v.interpolation_progress, FMul(step_size, v.playback_speed))

\* _advance_frame with the fraction zeroed at a sample boundary but the
\* index left where it was
_advance_frame_NoStep(v) ==
    IF v.frames = <<>> \/ v.current_frame_index >= Len(v.frames) - 1
    THEN pause(v)
    ELSE IF FLeq(FInt(1), Stepped(v))
         THEN _create_interpolated_frame(
                 [v EXCEPT !.interpolation_progress = FZero])
         ELSE _create_interpolated_frame(
                 [v EXCEPT !.interpolation_progress = Stepped(v)])

\* _advance_frame rewinding to the first sample at the end of the stream
_advance_frame_Rewind(v) ==
    IF v.frames = <<>> \/ v.current_frame_index >= Len(v.frames) - 1
    THEN stop(v)
    ELSE IF FLeq(FInt(1), Stepped(v))
         THEN LET w == [v EXCEPT
                          !.current_frame_index = v.current_frame_index + 1,
                          !.interpolation_progress = FZero]
              IN IF w.current_frame_index >= Len(w.frames) - 1
                 THEN stop(w)
                 ELSE _create_interpolated_frame(w)
         ELSE _create_interpolated_frame(
                 [v EXCEPT !.interpolation_progress = Stepped(v)])

\* DemoViewer._advance_frame: the tick pauses at the end of the stream;
\* before it the fraction and the index are moved and the call ends with
\* what _create_interpolated_frame (line 467) ends with, canvas.update() of
\* line 470 coming after it
_advance_frame(v) ==
    IF v.frames = <<>> \/ v.current_frame_index >= Len(v.frames) - 1
    THEN pause(v)
    ELSE IF FLeq(FInt(1), Stepped(v))
         THEN LET w == [v EXCEPT
                          !.current_frame_index = v.current_frame_index + 1,
                          !.interpolation_progress = FZero]
              IN IF w.current_frame_index >= Len(w.frames) - 1
                 THEN pause(w)
                 ELSE _create_interpolated_frame(w)
         ELSE _create_interpolated_frame(
                 [v EXCEPT !.interpolation_progress = Stepped(v)])

\* the viewer's fields after a call, and the exception the call ended with
SetViewer(v) ==
    /\ viewer_exc' = IF IsRaised(v) THEN v.raised ELSE "none"
    /\ frames' = v.frames
    /\ current_frame_index' = v.current_frame_index
    /\ is_playing' = v.is_playing
    /\ playback_speed' = v.playback_speed
    /\ interpolation_progress' = v.interpolation_progress
    /\ interpolated_frame' = v.interpolated_frame
    /\ canvas_frame' = v.canvas_frame

PlaybackFrame ==
    UNCHANGED <<ivars, wvars, tvars, mvars, cvars, svars, bvars>>

PlaybackInit ==
    /\ frames = NewViewer.frames
    /\ current_frame_index = NewViewer.current_frame_index
    /\ is_playing = NewViewer.is_playing
    /\ playback_speed = NewViewer.playback_speed
    /\ interpolation_progress = NewViewer.interpolation_progress
    /\ interpolated_frame = NewViewer.interpolated_frame
    /\ canvas_frame = NewViewer.canvas_frame
    /\ viewer_exc = "none"

LoadMatch ==
    \E fl \in FrameLists : SetViewer(load_match(Viewer, fl)) /\ PlaybackFrame

Play == SetViewer(play(Viewer)) /\ PlaybackFrame

Pause == SetViewer(pause(Viewer)) /\ PlaybackFrame

Stop == SetViewer(stop(Viewer)) /\ PlaybackFrame

Seek ==
    \E frame_index \in -1..MaxFrames :
        SetViewer(seek(Viewer, frame_index)) /\ PlaybackFrame

SetProgress ==
    \E progress \in Progresses :
        SetViewer(set_progress(Viewer, progress)) /\ PlaybackFrame

SetSpeed ==
    \E speed \in Speeds : SetViewer(set_speed(Viewer, speed)) /\ PlaybackFrame

\* playback_timer.timeout -> _advance_frame; the timer runs between
\* playback_timer.start (play) and playback_timer.stop (pause).  A tick that
\* raises leaves the fields as the call left them and the timer running:
\* nothing in _advance_frame stops it
TimerTick ==
    /\ is_playing
    /\ \E v \in {_advance_frame(Viewer)} : SetViewer(v)
    /\ PlaybackFrame

PlaybackNext ==
    \/ LoadMatch
    \/ Play
    \/ Pause
    \/ Stop
    \/ Seek
    \/ SetProgress
    \/ SetSpeed
    \/ TimerTick

\* the viewer after n timer ticks
RECURSIVE Ticks(_, _)
Ticks(v, n) == IF n = 0 THEN v ELSE Ticks(After(_advance_frame(v)), n - 1)

\* ticks played before the pause of PausedStarts
TicksBeforePause == 8

\* a frame list is loaded, a speed button pressed and a sample sought
SoughtStarts ==
    { seek(set_speed(After(load_match(NewViewer, fl)), speed), i) :
        fl \in FrameLists, speed \in Speeds,
        i \in 0..(MaxFrames - 1) }

\* a frame list is loaded and played at speed 1 for some ticks, playback is
\* paused between two samples and another speed is set
PausedStarts ==
    { set_speed(pause(Ticks(play(After(load_match(NewViewer, fl))),
                            TicksBeforePause)),
                speed) :
        fl \in { l \in FrameLists : Len(l) >= 2 },
        speed \in {SlowSpeed} \cup SubnormalSpeeds \cup ButtonSpeeds }

\* the viewers play() is called on
AutoplayStarts == SoughtStarts \cup PausedStarts

\* play() has just been called and the user does nothing more
AutoplayInit ==
    \E v \in AutoplayStarts : \E p \in {play(v)} :
        /\ frames = p.frames
        /\ current_frame_index = p.current_frame_index
        /\ is_playing = p.is_playing
        /\ playback_speed = p.playback_speed
        /\ interpolation_progress = p.interpolation_progress
        /\ interpolated_frame = p.interpolated_frame
        /\ canvas_frame = p.canvas_frame
        /\ viewer_exc = "none"

\* playback left to itself: only the timer acts on the viewer
AutoplayNext == TimerTick

PlaybackIdle == PlaybackInit


(***************************************************************************)
(* The coordinate transforms (src/src/utils/map_config.py) and             *)
(* MapRenderer.world_to_screen (src/src/core/map_renderer.py).  A point is *)
(* a pair <<x, y>> of floats.                                              *)
(***************************************************************************)
\* world points are taken on a GridN x GridN subdivision of the bounds
GridN == 2

\* MapBounds(pos_x, pos_y, scale, min_x, max_x, min_y, max_y)
MapBounds(pos_x, pos_y, scale, min_x, max_x, min_y, max_y) ==
    [pos_x |-> pos_x, pos_y |-> pos_y, scale |-> scale,
     min_x |-> min_x, max_x |-> max_x, min_y |-> min_y, max_y |-> max_y]

\* the MapBounds get_map_config returns for a map it does not know
DefaultBounds == MapBounds(-3000, 3000, FInt(5), -3000, 3000, -3000, 3000)

\* MAP_CONFIGS["de_dust2"] (map_config.py:50-58)
Dust2Bounds == MapBounds(-2476, 3239, FDec(44, 10), -2476, 1894, -668, 3239)

\* a square calibration of side 4000 around the origin
SquareBounds == MapBounds(-2000, 2000, FInt(5), -2000, 2000, -2000, 2000)

BoundsFedIn == { DefaultBounds, Dust2Bounds, SquareBounds }

\* QPixmap sizes: the placeholder (map_renderer.py:81), a landscape and a
\* portrait image
PlaceholderSize == <<1024, 1024>>
ImageSizes == { PlaceholderSize, <<800, 600>>, <<600, 800>> }

\* MapRenderer.map_image is None
NoImage == <<0, 0>>

\* no point computed yet
NoPoint == <<>>

\* the world points fed in for a MapBounds: the grid over its rectangle
\* (corners and edges included) and the world origin
WorldPoints(b) ==
    { << FAdd(FInt(b.min_x), FMul(FDiv(FInt(i), FInt(GridN)), FInt(b.max_x - b.min_x))),
         FAdd(FInt(b.min_y), FMul(FDiv(FInt(j), FInt(GridN)), FInt(b.max_y - b.min_y))) >> :
        i \in 0..GridN, j \in 0..GridN }
    \cup { << FInt(0), FInt(0) >> }

\* world_to_radar without `normalized_y = 1.0 - normalized_y`
world_to_radar_NoFlip(x, y, b, image_width, image_height) ==
    << FMul(FDiv(FSub(x, FInt(b.min_x)), FInt(b.max_x - b.min_x)),
            FInt(image_width)),
       FMul(FDiv(FSub(y, FInt(b.min_y)), FInt(b.max_y - b.min_y)),
            FInt(image_height)) >>

\* world_to_radar
world_to_radar(x, y, b, image_width, image_height) ==
    LET normalized_x == FDiv(FSub(x, FInt(b.min_x)), FInt(b.max_x - b.min_x))
        normalized_y0 == FDiv(FSub(y, FInt(b.min_y)), FInt(b.max_y - b.min_y))
        normalized_y == FSub(FInt(1), normalized_y0)
    IN << FMul(normalized_x, FInt(image_width)),
          FMul(normalized_y, FInt(image_height)) >>

\* radar_to_world dividing radar_y by the image width
radar_to_world_WidthForY(radar_x, radar_y, b, image_width, image_height) ==
    << FAdd(FInt(b.min_x),
            FMul(FDiv(radar_x, FInt(image_width)), FInt(b.max_x - b.min_x))),
       FAdd(FInt(b.min_y),
            FMul(FSub(FInt(1), FDiv(radar_y, FInt(image_width))),
                 FInt(b.max_y - b.min_y))) >>

\* radar_to_world
radar_to_world(radar_x, radar_y, b, image_width, image_height) ==
    LET normalized_x == FDiv(radar_x, FInt(image_width))
        normalized_y == FSub(FInt(1), FDiv(radar_y, FInt(image_height)))
    IN << FAdd(FInt(b.min_x), FMul(normalized_x, FInt(b.max_x - b.min_x))),
          FAdd(FInt(b.min_y), FMul(normalized_y, FInt(b.max_y - b.min_y))) >>

\* MapRenderer.world_to_screen
world_to_screen(x, y, b, map_image) ==
    IF map_image = NoImage THEN << FInt(0), FInt(0) >>
    ELSE world_to_radar(x, y, b, map_image[1], map_image[2])

MapperFrame ==
    UNCHANGED <<ivars, wvars, tvars, pvars, cvars, svars, bvars>>

MapperInit ==
    /\ map_bounds \in BoundsFedIn
    /\ image_size \in ImageSizes
    /\ world_pt \in WorldPoints(map_bounds)
    /\ radar_pt = NoPoint
    /\ back_pt = NoPoint

\* renderer.world_to_screen(x, y) on a renderer holding map_bounds and an
\* image of image_size
WorldToScreen ==
    /\ radar_pt = NoPoint
    /\ radar_pt' = world_to_screen(world_pt[1], world_pt[2], map_bounds,
                                   image_size)
    /\ UNCHANGED <<map_bounds, image_size, world_pt, back_pt>>
    /\ MapperFrame

\* radar_to_world on the point world_to_screen returned
RadarToWorld ==
    /\ radar_pt # NoPoint
    /\ back_pt = NoPoint
    /\ back_pt' = radar_to_world(radar_pt[1], radar_pt[2], map_bounds,
                                 image_size[1], image_size[2])
    /\ UNCHANGED <<map_bounds, image_size, world_pt, radar_pt>>
    /\ MapperFrame

MapperNext == WorldToScreen \/ RadarToWorld

MapperIdle ==
    /\ map_bounds = DefaultBounds
    /\ image_size = PlaceholderSize
    /\ world_pt = << FInt(0), FInt(0) >>
    /\ radar_pt = NoPoint
    /\ back_pt = NoPoint


(***************************************************************************)
(* The map calibration table and its lookup (src/src/utils/map_config.py), *)
(* MapRenderer.__init__ (src/src/core/map_renderer.py) and the calibration *)
(* tool (src/calibration_tool.py).  MAP_CONFIGS holds one MapBounds object *)
(* per key; whoever is handed an entry holds a reference to that object,   *)
(* so the table is state (map_configs) and a reference names the key.      *)
(***************************************************************************)
\* str.lower
Lower(s) == MapChars(LowerOf, s)

\* the characters str.isspace holds of: U+0009 to U+000D, U+001C to U+0020,
\* U+0085, U+00A0 and the spaces above U+00FF
Whitespace ==
    { "\t", "\n", "", "\f", "\r", "", "", "", "", " ", "", " ",
      "U+1680", "U+2000", "U+2001", "U+2002", "U+2003", "U+2004", "U+2005",
      "U+2006", "U+2007", "U+2008", "U+2009", "U+200A", "U+2028", "U+2029",
      "U+202F", "U+205F", "U+3000" }

\* str.strip: every leading and every trailing whitespace character goes
RECURSIVE Strip(_)
Strip(s) ==
    IF s = <<>> THEN s
    ELSE IF Head(s) \in Whitespace THEN Strip(Tail(s))
    ELSE IF s[Len(s)] \in Whitespace THEN Strip(SubSeq(s, 1, Len(s) - 1))
    ELSE s

\* str.startswith
StartsWith(s, prefix) ==
    Len(s) >= Len(prefix) /\ SubSeq(s, 1, Len(prefix)) = prefix

STR_de_ == <<"d", "e", "_">>
STR_cs_ == <<"c", "s", "_">>

KEY_de_ancient == <<"d", "e", "_", "a", "n", "c", "i", "e", "n", "t">>
KEY_de_train == <<"d", "e", "_", "t", "r", "a", "i", "n">>
KEY_de_dust2 == <<"d", "e", "_", "d", "u", "s", "t", "2">>
KEY_de_inferno == <<"d", "e", "_", "i", "n", "f", "e", "r", "n", "o">>
KEY_de_mirage == <<"d", "e", "_", "m", "i", "r", "a", "g", "e">>
KEY_de_nuke == <<"d", "e", "_", "n", "u", "k", "e">>
KEY_de_overpass == <<"d", "e", "_", "o", "v", "e", "r", "p", "a", "s", "s">>

\* MAP_CONFIGS.keys(), in the order of the dict literal
MapKeys ==
    << KEY_de_ancient,
       KEY_de_train,
       KEY_de_dust2,
       KEY_de_inferno,
       KEY_de_mirage,
       KEY_de_nuke,
       KEY_de_overpass >>

\* the dict literal of MAP_CONFIGS, each scale written in hundredths (5.22 as
\* 522)
MapConfigLiterals ==
    (KEY_de_ancient :> MapBounds(-2953, 2164, 500, -2953, 1344, -1319, 2164)) @@
    (KEY_de_train :> MapBounds(-2796, 3328, 522, -2796, 1332, -676, 3328)) @@
    (KEY_de_dust2 :> MapBounds(-2476, 3239, 440, -2476, 1894, -668, 3239)) @@
    (KEY_de_inferno :> MapBounds(-2087, 3870, 490, -2087, 2048, -770, 3870)) @@
    (KEY_de_mirage :> MapBounds(-3230, 1713, 500, -3230, 1770, -2738, 1713)) @@
    (KEY_de_nuke :> MapBounds(-3453, 2887, 700, -3453, 2560, -2887, 2887)) @@
    (KEY_de_overpass :> MapBounds(-3168, 1762, 400, -3168, 1024, -1698, 1762))

\* MAP_CONFIGS as loaded at startup: each scale is the double its literal
\* is read as (5.22 is the double nearest to 522/100)
MAP_CONFIGS ==
    [key \in DOMAIN MapConfigLiterals |->
        [MapConfigLiterals[key] EXCEPT !.scale = FDec(@, 100)]]

\* MAP_ALIASES
MAP_ALIASES ==
    (<<"d", "u", "s", "t", "2">> :> KEY_de_dust2) @@
    (<<"d", "2">> :> KEY_de_dust2) @@
    (<<"m", "i", "r", "a", "g", "e">> :> KEY_de_mirage) @@
    (<<"i", "n", "f", "e", "r", "n", "o">> :> KEY_de_inferno) @@
    (<<"n", "u", "k", "e">> :> KEY_de_nuke) @@
    (<<"t", "r", "a", "i", "n">> :> KEY_de_train) @@
    (<<"a", "n", "c", "i", "e", "n", "t">> :> KEY_de_ancient) @@
    (<<"o", "v", "e", "r", "p", "a", "s", "s">> :> KEY_de_overpass)

\* the map names fed in: keys, a key in another case, names no key holds
\* (among them names that are part of a key or hold one), aliases, the
\* empty name, a name with blanks
\* longest map name built from NameAlphabet
MaxNameLen == 3

NameAlphabet == {"d", "e", "_", "2"}

MapNames ==
    { <<"d", "e", "_", "d", "u", "s", "t", "2">>,
      <<"d", "e", "_", "m", "i", "r", "a", "g", "e">>,
      <<"D", "e", "_", "N", "u", "k", "e">>,
      <<"d", "e", "_", "d", "u", "s", "t">>,
      <<"d", "u", "s", "t", "2">>,
      <<"d", "2">>,
      <<"d", "e", "_", "c", "a", "c", "h", "e">>,
      <<"D", "e", "_", "C", "a", "c", "h", "e">>,
      << >>,
      <<"d", "e", "_">>,
      <<"c", "s", "_", "o", "f", "f", "i", "c", "e">>,
      <<" ", "M", "i", "r", "a", "g", "e", " ">>,
      <<"d", "e", "_", "n", "u", "k", "e", "_", "o", "l", "d">>,
      <<"t", "r", "a", "i", "n">>,
      <<"D", "E", "_", "N", "U", "U+212A", "E">>,
      <<"D", "E", "_", "D", "U", "S", "T", "2", "É">>,
      <<"", "D", "2", " ">> }

\* the names handed to get_map_config: MapNames (the last three hold KELVIN
\* SIGN, a capital letter outside ASCII, and a vertical tab and a no-break
\* space) and every string over NameAlphabet up to MaxNameLen
LookupNames == MapNames \cup SeqsUpTo(NameAlphabet, MaxNameLen)

\* a reference to the MapBounds object held by MAP_CONFIGS under a key
EntryRef(key) == [entry |-> TRUE, key |-> key, own |-> DefaultBounds]

\* a reference to a MapBounds object of its own, held by no table
OwnRef(b) == [entry |-> FALSE, key |-> <<>>, own |-> b]

\* the MapBounds a reference leads to, in a table
Deref(table, ref) == IF ref.entry THEN table[ref.key] ELSE ref.own

\* the first key, in dict order, that holds the name or is held by it
\* (0 when there is none)
PartialMatch(clean_name) ==
    IF \E i \in 1..Len(MapKeys) :
          Contains(MapKeys[i], clean_name) \/ Contains(clean_name, MapKeys[i])
    THEN CHOOSE i \in 1..Len(MapKeys) :
            /\ Contains(MapKeys[i], clean_name)
               \/ Contains(clean_name, MapKeys[i])
            /\ \A j \in 1..(i - 1) :
                  /\ ~Contains(MapKeys[j], clean_name)
                  /\ ~Contains(clean_name, MapKeys[j])
    ELSE 0

\* get_map_config: the object it returns
get_map_config(map_name) ==
    LET clean_name == Lower(map_name) IN
    IF clean_name \in DOMAIN MAP_CONFIGS THEN EntryRef(clean_name)
    ELSE IF PartialMatch(clean_name) # 0
         THEN EntryRef(MapKeys[PartialMatch(clean_name)])
         ELSE OwnRef(DefaultBounds)

\* normalize_map_name
normalize_map_name(name) ==
    LET clean == Strip(Lower(name)) IN
    IF clean \in DOMAIN MAP_ALIASES THEN MAP_ALIASES[clean]
    ELSE IF ~StartsWith(clean, STR_de_) /\ ~StartsWith(clean, STR_cs_)
         THEN STR_de_ \o clean
         ELSE clean

\* no MapRenderer (self.renderer = None)
NoRenderer == [none |-> TRUE]

\* MapRenderer.__init__ with no image under assets_dir: the placeholder
NewRenderer(map_name) ==
    [map_name |-> normalize_map_name(map_name),
     map_bounds |-> get_map_config(normalize_map_name(map_name)),
     map_image |-> PlaceholderSize]

\* the values the spin boxes are set to by hand, per spin box
SpinValues ==
    [min_x |-> {-2500, -2000}, max_x |-> {2000, 2500},
     min_y |-> {-2500, -2000}, max_y |-> {2000, 2500},
     scale |-> {FInt(4), FInt(5)}]

SpinNames == {"min_x", "max_x", "min_y", "max_y", "scale"}

\* the map names the calibration tool is started on (--map)
ToolMaps == { KEY_de_dust2, KEY_de_mirage,
              <<"d", "e", "_", "c", "a", "c", "h", "e">> }

\* the map names another consumer makes its MapRenderer with: those of the
\* tool and an alias written in capitals between whitespace, and after a
\* vertical tab
ConsumerMaps ==
    ToolMaps \cup { <<"\t", "D", "2", " ", "\n">>, <<"", "D", "2">> }

\* the spin boxes as _create_controls sets them
InitialSpins(config) ==
    [min_x |-> config.min_x, max_x |-> config.max_x,
     min_y |-> config.min_y, max_y |-> config.max_y,
     scale |-> config.scale]

\* (a + b) / 2
Half(a, b) == FDiv(FInt(a + b), FInt(2))

\* add_test_points: the screen positions of the five test points
TestPoints(table, map_name, renderer) ==
    LET config == Deref(table, get_map_config(map_name))
        b == Deref(table, renderer.map_bounds)
        test_coords ==
            << <<FInt(config.min_x), FInt(config.max_y)>>,
               <<FInt(config.max_x), FInt(config.min_y)>>,
               <<Half(config.min_x, config.max_x),
                 Half(config.min_y, config.max_y)>>,
               <<FInt(config.min_x), FInt(config.min_y)>>,
               <<FInt(config.max_x), FInt(config.max_y)>> >>
    IN [i \in 1..5 |->
          world_to_screen(test_coords[i][1], test_coords[i][2], b,
                          renderer.map_image)]

\* the table after the assignments of on_config_changed to the object
\* get_map_config returns (an object of its own is dropped on return)
ConfigAssigned(table, map_name, spin) ==
    LET ref == get_map_config(map_name) IN
    IF ref.entry
    THEN [table EXCEPT ![ref.key] =
            [@ EXCEPT !.min_x = spin.min_x, !.max_x = spin.max_x,
                      !.min_y = spin.min_y, !.max_y = spin.max_y,
                      !.scale = spin.scale]]
    ELSE table

CalibFrame == UNCHANGED <<ivars, wvars, tvars, pvars, mvars, svars, bvars>>

\* the module is loaded and CalibrationWindow(map_name) is constructed
CalibInit ==
    /\ map_configs = MAP_CONFIGS
    /\ cal_map_name \in ToolMaps
    /\ spins = InitialSpins(Deref(MAP_CONFIGS, get_map_config(cal_map_name)))
    /\ cal_renderer = NewRenderer(cal_map_name)
    /\ test_points = TestPoints(MAP_CONFIGS, cal_map_name,
                                NewRenderer(cal_map_name))
    /\ consumer = NoRenderer
    /\ lookup_name = <<>>
    /\ lookup_out = NoPoint

\* a spin box is set to another value: valueChanged -> on_config_changed
OnConfigChanged ==
    \E f \in SpinNames : \E v \in SpinValues[f] :
        /\ v # spins[f]
        /\ spins' = [spins EXCEPT ![f] = v]
        /\ map_configs' = ConfigAssigned(map_configs, cal_map_name, spins')
        /\ test_points' = TestPoints(map_configs', cal_map_name, cal_renderer)
        /\ UNCHANGED <<cal_map_name, cal_renderer, consumer, lookup_name,
                       lookup_out>>
        /\ CalibFrame

\* the "Add Test Points" button
AddTestPoints ==
    /\ test_points' = TestPoints(map_configs, cal_map_name, cal_renderer)
    /\ UNCHANGED <<map_configs, cal_map_name, spins, cal_renderer, consumer,
                   lookup_name, lookup_out>>
    /\ CalibFrame

\* the "Clear Points" button
ClearPoints ==
    /\ test_points' = <<>>
    /\ UNCHANGED <<map_configs, cal_map_name, spins, cal_renderer, consumer,
                   lookup_name, lookup_out>>
    /\ CalibFrame

\* another consumer creates its MapRenderer
CreateRenderer ==
    \E name \in ConsumerMaps :
        /\ consumer' = NewRenderer(name)
        /\ UNCHANGED <<map_configs, cal_map_name, spins, cal_renderer,
                       test_points, lookup_name, lookup_out>>
        /\ CalibFrame

CalibNext ==
    \/ OnConfigChanged
    \/ AddTestPoints
    \/ ClearPoints
    \/ CreateRenderer

\* the module is loaded, no tool window
NoToolWindow ==
    /\ map_configs = MAP_CONFIGS
    /\ cal_map_name = <<>>
    /\ spins = InitialSpins(DefaultBounds)
    /\ cal_renderer = NoRenderer
    /\ test_points = <<>>
    /\ consumer = NoRenderer

CalibIdle ==
    /\ NoToolWindow
    /\ lookup_name = <<>>
    /\ lookup_out = NoPoint

\* get_map_config on its own: the module is loaded, a caller holds a name
LookupInit ==
    /\ NoToolWindow
    /\ lookup_name \in LookupNames
    /\ lookup_out = NoPoint

\* get_map_config(lookup_name) is called and the bounds it returns are read
LookupBounds ==
    /\ lookup_out = NoPoint
    /\ lookup_out' = Deref(map_configs, get_map_config(lookup_name))
    /\ UNCHANGED <<map_configs, cal_map_name, spins, cal_renderer,
                   test_points, consumer, lookup_name>>
    /\ CalibFrame

LookupNext == LookupBounds

(***************************************************************************)
(* DataProcessor.get_leaderboard and get_weapon_stats                      *)
(* (src/src/core/data_processor.py) on the Match the processor is made     *)
(* with.  A dict is the sequence of its items in insertion order.          *)
(***************************************************************************)
\* most kills in the Match handed to the processor
MaxKills == 2

\* the players of match.players, in list order
StatsOrders == { <<>>, <<"A">>, <<"A", "B">>, <<"B", "A">> }

\* a Kill (models.py:174-204)
StatsKill(a, v, weapon, hs) ==
    [tick |-> 1500, attacker_steamid |-> a, attacker_name |-> NameOf(a),
     victim_steamid |-> v, victim_name |-> NameOf(v), weapon |-> weapon,
     headshot |-> hs]

\* the Kills among the players ids, differing in the weapon
StatsKills(ids) ==
    { StatsKill(a, v, w, FALSE) : a \in ids, v \in ids, w \in {"ak47", "awp"} }
    \cup { StatsKill(a, v, "awp", TRUE) :
             a \in ids \cap {"A"}, v \in ids \cap {"B"} }

\* a Player (models.py:11-29) whose counters are those of the kill list
StatsPlayer(id, kills) ==
    [steamid |-> id, name |-> NameOf(id),
     team |-> IF id = "A" THEN "CT" ELSE "T",
     kills |-> Cardinality({ i \in 1..Len(kills) : kills[i].attacker_steamid = id }),
     deaths |-> Cardinality({ i \in 1..Len(kills) : kills[i].victim_steamid = id }),
     headshots |-> Cardinality({ i \in 1..Len(kills) :
                                   kills[i].attacker_steamid = id /\ kills[i].headshot }),
     assists |-> 0, damage |-> 0]

\* a Match (models.py:274-321) with the players of order in its list, and
\* no round or one Round (models.py:123-152) won by CT holding the kills
StatsMatch(order, kills, with_round) ==
    [map_name |-> "de_dust2", tick_rate |-> DefaultTickRate,
     players |-> [i \in 1..Len(order) |-> StatsPlayer(order[i], kills)],
     rounds |-> IF with_round
                THEN << [round_num |-> 1, winner |-> "CT", reason |-> "",
                         start_tick |-> 0, end_tick |-> 2500,
                         kills |-> kills] >>
                ELSE <<>>,
     score_t |-> 0, score_ct |-> IF with_round THEN 1 ELSE 0]

\* the Match objects DataProcessor(match) is made with
StatsMatches ==
    UNION { { StatsMatch(order, kills, with_round) :
                kills \in SeqsUpTo(StatsKills({ order[i] : i \in 1..Len(order) }),
                                   MaxKills),
                with_round \in BOOLEAN } :
            order \in StatsOrders }
    \ { StatsMatch(order, kills, FALSE) :
          order \in StatsOrders,
          kills \in SeqsUpTo(StatsKills({"A", "B"}), MaxKills) \ { <<>> } }
\* the values of sort_by fed in: three counters, the ratio, and a field
\* the statistics do not have
SortFields == {"kills", "deaths", "headshots", "kd_ratio", "mvps"}

\* no table computed yet
NoTable == [none |-> TRUE]

\* the list or dict a call returned, as the sequence of its items
Table(rows) == [rows |-> rows]

\* sorted(..., reverse=True) on items [key, item] from position i on: the
\* sort is stable, an item goes behind the items whose key is not smaller
RECURSIVE SortedDescFrom(_, _, _)
SortedDescFrom(items, i, acc) ==
    IF i > Len(items) THEN acc
    ELSE LET n == Cardinality({ j \in 1..Len(acc) :
                                  FLeq(items[i].key, acc[j].key) })
         IN SortedDescFrom(items, i + 1,
                SubSeq(acc, 1, n) \o <<items[i]>> \o SubSeq(acc, n + 1, Len(acc)))

\* self.match.players.keys(), line 61: players of a Match is a list
\* (models.py:318), which has no keys; the lookup raises AttributeError
players_keys(m) == Raised("AttributeError")

\* DataProcessor.get_all_players_stats
get_all_players_stats(m) ==
    LET keys == players_keys(m) IN
    IF IsRaised(keys) THEN keys
    ELSE [i \in 1..Len(keys) |-> get_player_stats(m, keys[i])]

\* lines 77-81: stats["_sort_key"]
SortKey(stats, sort_by) ==
    IF sort_by = "kd_ratio" THEN stats.kd_ratio
    ELSE IF sort_by \in DOMAIN stats THEN FInt(stats[sort_by])
    ELSE FZero

\* DataProcessor.get_leaderboard: the sorted list, or the exception
\* get_all_players_stats ends with
get_leaderboard(m, sort_by) ==
    LET all_stats == get_all_players_stats(m) IN
    IF IsRaised(all_stats) THEN all_stats
    ELSE LET keyed == [i \in 1..Len(all_stats) |->
                         [key |-> SortKey(all_stats[i], sort_by),
                          item |-> all_stats[i]]]
             sorted_stats == SortedDescFrom(keyed, 1, <<>>)
         IN Table([i \in 1..Len(sorted_stats) |-> sorted_stats[i].item])

\* the kills of all rounds in the order of the two loops of lines 163-164
RECURSIVE KillsFrom(_, _)
KillsFrom(rounds, i) ==
    IF i > Len(rounds) THEN <<>>
    ELSE rounds[i].kills \o KillsFrom(rounds, i + 1)

\* kill.is_headshot, line 167: the class Kill (models.py:174-204) names the
\* field headshot, the lookup raises AttributeError
is_headshot(kill) == Raised("AttributeError")

\* the keys of weapon_stats in insertion order: the weapons in the order
\* of their first kill
RECURSIVE WeaponsFrom(_, _, _)
WeaponsFrom(kills, i, acc) ==
    IF i > Len(kills) THEN acc
    ELSE IF \E j \in 1..Len(acc) : acc[j] = kills[i].weapon
         THEN WeaponsFrom(kills, i + 1, acc)
         ELSE WeaponsFrom(kills, i + 1, Append(acc, kills[i].weapon))

\* lines 172-182: result[weapon]
WeaponEntry(kills, weapon) ==
    LET mine == { i \in 1..Len(kills) : kills[i].weapon = weapon }
        n_kills == Cardinality(mine)
        n_headshots == Cardinality({ i \in mine : is_headshot(kills[i]) = TRUE })
    IN [weapon |-> weapon,
        kills |-> n_kills,
        headshots |-> n_headshots,
        unique_users |-> Cardinality({ kills[i].killer.steam_id : i \in mine }),
        hs_percentage |-> IF n_kills > 0
                          THEN FMul(FDiv(FInt(n_headshots), FInt(n_kills)),
                                    FInt(100))
                          ELSE FZero]

\* DataProcessor.get_weapon_stats: the sorted table, or the exception the
\* first kill of the loop of lines 163-169 ends with
get_weapon_stats(m) ==
    LET kills == KillsFrom(m.rounds, 1) IN
    IF kills # <<>> /\ IsRaised(is_headshot(kills[1]))
    THEN is_headshot(kills[1])
    ELSE LET weapons == WeaponsFrom(kills, 1, <<>>)
             keyed == [i \in 1..Len(weapons) |->
                         [key |-> FInt(WeaponEntry(kills, weapons[i]).kills),
                          item |-> WeaponEntry(kills, weapons[i])]]
             sorted_items == SortedDescFrom(keyed, 1, <<>>)
         IN Table([i \in 1..Len(sorted_items) |-> sorted_items[i].item])

StatsFrame == UNCHANGED <<wvars, tvars, pvars, mvars, cvars, bvars>>

\* processor.get_leaderboard(sort_by)
GetLeaderboard ==
    /\ \E sort_by \in SortFields :
          /\ sort_field' = sort_by
          /\ leaderboard' = get_leaderboard(stats_match, sort_by)
    /\ UNCHANGED <<ivars, stats_match, weapon_table>>
    /\ StatsFrame

\* processor.get_weapon_stats()
GetWeaponStats ==
    /\ weapon_table' = get_weapon_stats(stats_match)
    /\ UNCHANGED <<ivars, stats_match, sort_field, leaderboard>>
    /\ StatsFrame

StatsNext == GetLeaderboard \/ GetWeaponStats

StatsIdle ==
    /\ stats_match = NoMatch
    /\ sort_field = ""
    /\ leaderboard = NoTable
    /\ weapon_table = NoTable

\* DataProcessor(match), lines 13-14
StatsInit ==
    /\ stats_match \in StatsMatches
    /\ sort_field = ""
    /\ leaderboard = NoTable
    /\ weapon_table = NoTable

(***************************************************************************)
(* create_match_from_parse_result and Match.winner_team                    *)
(* (src/src/core/models.py): the Match the worker builds from the result   *)
(* of the parse.                                                           *)
(***************************************************************************)
STR_Terrorist == <<"T","e","r","r","o","r","i","s","t">>

\* the values of Round.winner fed in: both sides in the spellings of the
\* decoder, no winner, a draw
RoundWinners ==
    { STR_CT, STR_T, STR_Terrorist, STR_TERRORIST, <<>>,
      <<"D","r","a","w">> }

\* parse_result has no "map_name" key
AbsentKey == "<absent>"

\* parse_result.get("info") is None
NoInfo == [none |-> TRUE]

\* the MatchInfo fed in (map_name, date, duration, tick_rate, server_name)
SomeInfo ==
    [map_name |-> "de_dust2", date |-> "2024-01-01", duration |-> 1800,
     tick_rate |-> 128, server_name |-> "srv"]

\* the parse results fed in: with and without info, no players and kills
\* or some, every list of up to MaxRounds rounds
ParseResults ==
    { [info |-> i, map_name |-> mn, players |-> ps, rounds |-> rs,
       kills |-> ks] :
        i \in {NoInfo, SomeInfo},
        mn \in {AbsentKey, "de_mirage"},
        ps \in {<<>>, <<"A", "B">>},
        rs \in SeqsUpTo({[winner |-> w] : w \in RoundWinners}, MaxRounds),
        ks \in {<<>>, <<"k1">>} }

\* no Match built yet
NoBuilt == [none |-> TRUE]

\* the test of line 423
IsCtWin(r) == Contains(r.winner, STR_CT)

\* the test of line 424
IsTWin(r) == Contains(r.winner, STR_T) \/ Contains(r.winner, STR_Terrorist)

\* line 423: sum(1 for r in rounds if "CT" in r.winner)
ct_score(rounds) == Cardinality({ i \in 1..Len(rounds) : IsCtWin(rounds[i]) })

\* line 424: sum(1 for r in rounds if "T" in r.winner or ...)
t_score(rounds) == Cardinality({ i \in 1..Len(rounds) : IsTWin(rounds[i]) })

\* create_match_from_parse_result
create_match_from_parse_result(pr) ==
    [map_name |-> IF pr.map_name # AbsentKey THEN pr.map_name
                  ELSE IF pr.info # NoInfo THEN pr.info.map_name
                  ELSE "unknown",
     date |-> IF pr.info # NoInfo THEN pr.info.date ELSE "",
     duration |-> IF pr.info # NoInfo THEN pr.info.duration ELSE 0,
     tick_rate |-> IF pr.info # NoInfo THEN pr.info.tick_rate
                   ELSE DefaultTickRate,
     server_name |-> IF pr.info # NoInfo THEN pr.info.server_name ELSE "",
     score_ct |-> ct_score(pr.rounds),
     score_t |-> t_score(pr.rounds),
     total_rounds |-> Len(pr.rounds),
     total_kills |-> Len(pr.kills),
     total_players |-> Len(pr.players),
     players |-> pr.players,
     rounds |-> pr.rounds,
     kills |-> pr.kills]

\* Match.winner_team
winner_team(m) ==
    IF m.score_ct > m.score_t THEN "CT"
    ELSE IF m.score_t > m.score_ct THEN "T"
    ELSE "Draw"

BuildFrame == UNCHANGED <<ivars, wvars, tvars, pvars, mvars, cvars, svars>>

BuildInit ==
    /\ parse_result \in ParseResults
    /\ built = NoBuilt

\* match = create_match_from_parse_result(result)
BuildMatch ==
    /\ built = NoBuilt
    /\ built' = create_match_from_parse_result(parse_result)
    /\ UNCHANGED parse_result
    /\ BuildFrame

BuildNext == BuildMatch

BuildIdle ==
    /\ parse_result = [info |-> NoInfo, map_name |-> AbsentKey,
                       players |-> <<>>, rounds |-> <<>>, kills |-> <<>>]
    /\ built = NoBuilt

(***************************************************************************)
(* Specifications.  Spec: one run of DemoParserWrapper.parse on every      *)
(* pair of tables within the bounds.  SpecWorker: the manager, its         *)
(* workers and the GUI thread.                                             *)
(***************************************************************************)
WorkerIdle ==
    /\ workers = {}
    /\ worker = [p \in DemoPaths |-> NoWorker]
    /\ signals = <<>>

IngestIdle ==
    /\ death_df = <<>>
    /\ round_end_df = <<>>
    /\ pc = "start"
    /\ match = NoMatch
    /\ failed_call = "none"
    /\ raised_exc = "none"

Init ==
    IngestInit /\ WorkerIdle /\ TeamIdle /\ PlaybackIdle /\ MapperIdle
    /\ CalibIdle /\ StatsIdle /\ BuildIdle

Next == IngestNext

Spec == Init /\ [][Next]_vars

InitWorker ==
    IngestIdle /\ WorkerInit /\ TeamIdle /\ PlaybackIdle /\ MapperIdle
    /\ CalibIdle /\ StatsIdle /\ BuildIdle

SpecWorker == InitWorker /\ [][WorkerNext]_vars

InitTeam ==
    IngestIdle /\ WorkerIdle /\ TeamInit /\ PlaybackIdle /\ MapperIdle
    /\ CalibIdle /\ StatsIdle /\ BuildIdle

SpecTeam == InitTeam /\ [][TeamNext]_vars

InitPlayback ==
    IngestIdle /\ WorkerIdle /\ TeamIdle /\ PlaybackInit /\ MapperIdle
    /\ CalibIdle /\ StatsIdle /\ BuildIdle

SpecPlayback == InitPlayback /\ [][PlaybackNext]_vars

InitAutoplay ==
    IngestIdle /\ WorkerIdle /\ TeamIdle /\ AutoplayInit /\ MapperIdle
    /\ CalibIdle /\ StatsIdle /\ BuildIdle

\* playback_timer is a QTimer started by play() and stopped by pause(): while
\* the viewer is playing the timeout keeps firing
SpecAutoplay ==
    InitAutoplay /\ [][AutoplayNext]_vars /\ WF_vars(TimerTick)

InitMapper ==
    IngestIdle /\ WorkerIdle /\ TeamIdle /\ PlaybackIdle /\ MapperInit
    /\ CalibIdle /\ StatsIdle /\ BuildIdle

SpecMapper == InitMapper /\ [][MapperNext]_vars

InitCalibration ==
    IngestIdle /\ WorkerIdle /\ TeamIdle /\ PlaybackIdle /\ MapperIdle
    /\ CalibInit /\ StatsIdle /\ BuildIdle

SpecCalibration == InitCalibration /\ [][CalibNext]_vars

InitLookup ==
    IngestIdle /\ WorkerIdle /\ TeamIdle /\ PlaybackIdle /\ MapperIdle
    /\ LookupInit /\ StatsIdle /\ BuildIdle

SpecLookup == InitLookup /\ [][LookupNext]_vars

InitStats ==
    IngestIdle /\ WorkerIdle /\ TeamIdle /\ PlaybackIdle /\ MapperIdle
    /\ CalibIdle /\ StatsInit /\ BuildIdle

SpecStats == InitStats /\ [][StatsNext]_vars

InitBuild ==
    IngestIdle /\ WorkerIdle /\ TeamIdle /\ PlaybackIdle /\ MapperIdle
    /\ CalibIdle /\ StatsIdle /\ BuildInit

SpecBuild == InitBuild /\ [][BuildNext]_vars

(***************************************************************************)
(* Properties of ingestion (Spec).  They are stated on the tables fed in   *)
(* and on what parse() leaves behind.                                      *)
(***************************************************************************)
Rounds == match.rounds

\* parse() has ended, by returning or by raising, and no call of the
\* decoder has raised
ParseEnded == pc \in {"done", "raised"} /\ failed_call = "none"

\* the round_end table is in strictly increasing tick order
TickOrdered ==
    \A i, j \in 1..Len(round_end_df) :
        i < j => round_end_df[i].tick < round_end_df[j].tick

\* the slots <<round, position>> of the Kills the Match stores
KillSlots ==
    { <<j, k>> \in (1..Len(Rounds)) \X (1..MaxDeaths) : k <= Len(Rounds[j].kills) }

KillAt(slot) == Rounds[slot[1]].kills[slot[2]]

\* the first row of the player_death table that names id
EarliestRow(id) ==
    CHOOSE i \in 1..Len(death_df) :
        /\ id \in { death_df[i].attacker_steamid, death_df[i].user_steamid }
        /\ \A k \in 1..(i - 1) :
              id \notin { death_df[k].attacker_steamid, death_df[k].user_steamid }

\* C1: after ingestion of a round_end table there is a Match, and its rounds
\* are sorted and pairwise non-overlapping: round[i].end_tick <
\* round[i+1].start_tick for every consecutive pair.
C1_RoundsDisjoint ==
    (ParseEnded /\ Len(round_end_df) >= 2) =>
        /\ pc = "done"
        /\ \A i \in 1..(Len(Rounds) - 1) :
              Rounds[i].end_tick < Rounds[i + 1].start_tick

\* C2: after ingestion of death events there is a Match, and every Kill it
\* stores lies in the tick range of exactly one round, the round that stores
\* it.
C2_KillInExactlyOneRound ==
    (ParseEnded /\ Len(round_end_df) >= 1 /\ Len(death_df) >= 1) =>
        /\ pc = "done"
        /\ \A slot \in KillSlots :
              { j \in 1..Len(Rounds) :
                  /\ Rounds[j].start_tick <= KillAt(slot).tick
                  /\ KillAt(slot).tick <= Rounds[j].end_tick } = { slot[1] }

\* C3: one ingestion counts a row of the player_death table at most once,
\* however many round_end events there are: the Match it returns holds no
\* more Kills than the table has rows, and no player has more kills,
\* headshots or deaths than the table has rows naming that player as
\* attacker, headshot attacker or victim.
C3_RowCountedAtMostOnce ==
    (ParseEnded /\ Len(round_end_df) >= 2 /\ Len(death_df) >= 1) =>
        /\ pc = "done"
        /\ Cardinality(KillSlots) <= Len(death_df)
        /\ \A p \in DOMAIN match.players :
              /\ match.players[p].kills
                   <= Cardinality({ k \in 1..Len(death_df) :
                                        death_df[k].attacker_steamid = p })
              /\ match.players[p].headshots
                   <= Cardinality({ k \in 1..Len(death_df) :
                                        /\ death_df[k].attacker_steamid = p
                                        /\ death_df[k].headshot })
              /\ match.players[p].deaths
                   <= Cardinality({ k \in 1..Len(death_df) :
                                        death_df[k].user_steamid = p })

\* C6: ingestion of a round_end table holding a duplicate or out-of-order
\* event returns a Match in which that event produced no round: the end
\* ticks of the round list are strictly increasing and every round ends
\* after it starts.
C6_DuplicateRoundEndDropped ==
    (ParseEnded /\ ~TickOrdered) =>
        /\ pc = "done"
        /\ \A i, j \in 1..Len(Rounds) :
              i < j => Rounds[i].end_tick < Rounds[j].end_tick
        /\ \A i \in 1..Len(Rounds) : Rounds[i].start_tick < Rounds[i].end_tick

\* C12: after ingestion of a player_death table there is a registry, and
\* every player in it has the name and the team of the earliest row of the
\* table in which its steam id appears, as attacker or as victim.
C12_FirstSeenWins ==
    (ParseEnded /\ Len(death_df) >= 1) =>
        /\ pc = "done"
        /\ \A id \in DOMAIN match.players :
              LET row == death_df[EarliestRow(id)]
                  p == match.players[id]
              IN \/ /\ row.attacker_steamid = id
                    /\ p.name = row.attacker_name
                    /\ p.team = _parse_team(row.attacker_team_name)
                 \/ /\ row.user_steamid = id
                    /\ p.name = row.user_name
                    /\ p.team = _parse_team(row.user_team_name)

\* C5: for round_end events in tick order the Match parse() returns has one
\* round per event, the i-th round ends at the i-th event's tick and starts
\* one tick after the previous round's end (at 0 for the first); ticks
\* [1000, 2500, 4000] give (1001,2500) and (2501,4000).
C5_RoundStartsAfterPrevious ==
    (ParseEnded /\ TickOrdered /\ Len(round_end_df) > 0) =>
        /\ pc = "done"
        /\ Len(Rounds) = Len(round_end_df)
        /\ \A i \in 1..Len(Rounds) :
              /\ Rounds[i].end_tick = round_end_df[i].tick
              /\ Rounds[i].start_tick
                   = IF i = 1 THEN 0 ELSE Rounds[i - 1].end_tick + 1

\* C8: with an empty (or absent) round_end table parse() returns without
\* raising, the Match has an empty round list and both scores 0, and the
\* statistics of every player give ADR 0 and rounds_played 0 without
\* dividing by zero.
C8_NoRoundsIsValid ==
    (ParseEnded /\ Len(round_end_df) = 0) =>
        /\ pc = "done"
        /\ Rounds = <<>>
        /\ match.t_score = 0
        /\ match.ct_score = 0
        /\ \A p \in DOMAIN match.players :
              /\ ~IsRaised(get_player_stats(match, p))
              /\ get_player_stats(match, p).adr = FZero
              /\ get_player_stats(match, p).rounds_played = 0

\* C9: whenever a call of the decoding collaborator has raised in parse(),
\* parse() has ended by raising to its caller, not by returning a Match,
\* and the wrapper's match attribute holds no Match.
C9_FailureRaisesWithoutMatch ==
    failed_call # "none" =>
        /\ pc = "raised"
        /\ raised_exc # "none"
        /\ match = NoMatch

\* C9 witness: parse_header() has raised and parse() has ended
C9_Witness ==
    /\ failed_call = "parse_header"
    /\ pc = "raised"
    /\ match = NoMatch

(***************************************************************************)
(* Properties of team normalization (SpecTeam).                            *)
(***************************************************************************)
\* the member of Team of that name, returned by a call
TeamValue(name) == [member |-> name]

\* C11: team normalization maps the raw team string "TERRORIST" to T, "CT"
\* to CT, "SPECTATOR" to Spectator, and every string matching none of the
\* keywords (TERRORIST, T, CT, COUNTER, SPEC) to Unassigned.
C11_TeamNormalization ==
    team_out # NoTeam =>
        /\ team_in = STR_TERRORIST => team_out = TeamValue("T")
        /\ team_in = STR_CT => team_out = TeamValue("CT")
        /\ team_in = STR_SPECTATOR => team_out = TeamValue("SPECTATOR")
        /\ ( /\ ~Contains(Upper(team_in), STR_TERRORIST)
             /\ Upper(team_in) # STR_T
             /\ ~Contains(Upper(team_in), STR_CT)
             /\ ~Contains(Upper(team_in), STR_COUNTER)
             /\ ~Contains(Upper(team_in), STR_SPEC) )
           => team_out = TeamValue("UNASSIGNED")

(***************************************************************************)
(* Properties of the viewer's playback (SpecPlayback).                     *)
(***************************************************************************)
\* C13: in every playback state, after stop() playback is not playing,
\* current_frame_index is 0 and the interpolation fraction is 0, and a
\* second stop() leaves that state unchanged.
C13_StopResets ==
    LET w == stop(Viewer)
    IN /\ ~w.is_playing
       /\ w.current_frame_index = 0
       /\ w.interpolation_progress = FZero
       /\ stop(w) = w

\* the playback position: current_frame_index + interpolation fraction
Position(v) == FAdd(FInt(v.current_frame_index), v.interpolation_progress)

\* the viewer after the timer tick that is due while it is playing
Ticked == _advance_frame(Viewer)

\* C14: while playing with a positive speed multiplier, a timer tick never
\* decreases the playback position (current_frame_index + interpolation
\* fraction).
C14_PositionNeverDecreases ==
    (is_playing /\ FLess(FZero, playback_speed)) =>
        FLeq(Position(Viewer), Position(Ticked))

\* C14 witness: playback is between the second and the third sample, where
\* only ticks have moved the fraction (seek and stop leave it at 0)
C14_Witness ==
    /\ is_playing
    /\ FLess(FZero, playback_speed)
    /\ current_frame_index = 1
    /\ FLess(FZero, interpolation_progress)

\* the fraction a tick arrives at before it looks at the sample boundary
TickedFraction == Stepped(Viewer)

\* C15: when a tick between two samples makes the interpolation fraction
\* reach or exceed 1, playback advances to the next sample and the fraction
\* becomes the remainder (fraction - 1).
C15_RemainderKept ==
    ( /\ is_playing
      /\ current_frame_index < Len(frames) - 1
      /\ FLeq(FInt(1), TickedFraction) )
    => /\ Ticked.current_frame_index = current_frame_index + 1
       /\ Ticked.interpolation_progress = FSub(TickedFraction, FInt(1))

\* C16: a tick that finds or brings playback at the last sample stops
\* playing, and a tick that stops playing leaves current_frame_index at
\* len(frames) - 1; no tick moves the index back.
C16_AutoStopAtLastSample ==
    (is_playing /\ frames # <<>>) =>
        /\ Ticked.current_frame_index >= Len(frames) - 1 => ~Ticked.is_playing
        /\ ~Ticked.is_playing => Ticked.current_frame_index = Len(frames) - 1
        /\ Ticked.current_frame_index >= current_frame_index

\* C16 witness: playback is one tick before the last of several samples,
\* at a fraction only ticks can have produced; the tick that is due moves
\* the index to the last sample and stops playing
C16_Witness ==
    /\ is_playing
    /\ Len(frames) >= 2
    /\ current_frame_index = Len(frames) - 2
    /\ FLess(FZero, interpolation_progress)
    /\ FLeq(FInt(1), TickedFraction)
    /\ ~Ticked.is_playing
    /\ Ticked.current_frame_index = Len(frames) - 1

\* a player of the sample playback is at that is absent from the next
\* sample
AbsentFromNext(i) ==
    \A k \in 1..Len(frames[current_frame_index + 2].players) :
        frames[current_frame_index + 2].players[k].steam_id
            # frames[current_frame_index + 1].players[i].steam_id

\* C17: a tick between two samples, the first of which has a player that
\* is absent from the second, builds an interpolated frame, and that frame
\* holds every such player's current-sample state unchanged, whatever the
\* interpolation fraction.
C17_AbsentPlayerHeld ==
    ( /\ is_playing
      /\ current_frame_index < Len(frames) - 1
      /\ Ticked.current_frame_index = current_frame_index
      /\ \E i \in 1..Len(frames[current_frame_index + 1].players) :
            AbsentFromNext(i) )
    => /\ ~IsRaised(Ticked)
       /\ Ticked.interpolated_frame # NoFrame
       /\ LET current == frames[current_frame_index + 1]
              shown == Ticked.interpolated_frame
          IN /\ Len(shown.players) = Len(current.players)
             /\ \A i \in 1..Len(current.players) :
                   AbsentFromNext(i) => shown.players[i] = current.players[i]

(***************************************************************************)
(* Properties of the coordinate transforms (SpecMapper).                   *)
(***************************************************************************)
\* the margin factors tried for C18: the default and none
MarginFactors == { FDec(9, 10), FInt(1) }

\* two floats no further apart than 1e-9, far above the rounding of the
\* few operations of a transform and far below a pixel or a world unit
Near(a, b) == FLeq(FAbs(FSub(a, b)), FDec(1, 1000000000))

\* two points near each other on both axes
NearPoint(p, q) == Near(p[1], q[1]) /\ Near(p[2], q[2])

\* the screen point of C18 for a margin factor: one scale factor
\* s = min(canvas_w / width, canvas_h / height) * margin on both axes, the Y
\* axis inverted, offsets (canvas - size * s) / 2
UniformScalePoint(margin) ==
    LET width == FInt(map_bounds.max_x - map_bounds.min_x)
        height == FInt(map_bounds.max_y - map_bounds.min_y)
        canvas_w == FInt(image_size[1])
        canvas_h == FInt(image_size[2])
        sc == FMul(FMin(FDiv(canvas_w, width), FDiv(canvas_h, height)), margin)
        offset_x == FDiv(FSub(canvas_w, FMul(width, sc)), FInt(2))
        offset_y == FDiv(FSub(canvas_h, FMul(height, sc)), FInt(2))
    IN << FAdd(FMul(FSub(world_pt[1], FInt(map_bounds.min_x)), sc), offset_x),
          FAdd(FMul(FSub(FInt(map_bounds.max_y), world_pt[2]), sc), offset_y) >>

\* C18: the world-to-canvas transform applies one scale factor
\* s = min(canvas_w / width, canvas_h / height) * margin_factor to both axes
\* and centres the map with offsets (canvas - size * s) / 2, for the default
\* margin 0.9 (or for margin 1).
C18_UniformScaleAndCentre ==
    radar_pt # NoPoint =>
        \E margin \in MarginFactors :
            NearPoint(radar_pt, UniformScalePoint(margin))

\* C19: with bounds -2000..2000 on both axes and a 1024 x 1024 canvas, world
\* (0, 0) maps to screen (512, 512) and world (-2000, 2000) maps to screen
\* (0, 0).
C19_ScenarioB ==
    ( /\ radar_pt # NoPoint
      /\ map_bounds.min_x = -2000 /\ map_bounds.max_x = 2000
      /\ map_bounds.min_y = -2000 /\ map_bounds.max_y = 2000
      /\ image_size = <<1024, 1024>> )
    => /\ world_pt = << FInt(0), FInt(0) >>
            => radar_pt = << FInt(512), FInt(512) >>
       /\ world_pt = << FInt(-2000), FInt(2000) >>
            => radar_pt = << FInt(0), FInt(0) >>

\* C19 witness: the world top-left corner of the square bounds has been
\* mapped onto the canvas origin
C19_Witness ==
    /\ map_bounds.min_x = -2000 /\ map_bounds.max_x = 2000
    /\ map_bounds.min_y = -2000 /\ map_bounds.max_y = 2000
    /\ image_size = <<1024, 1024>>
    /\ world_pt = << FInt(-2000), FInt(2000) >>
    /\ radar_pt = << FInt(0), FInt(0) >>

\* C20: for every world point inside the bounds and every canvas size,
\* radar_to_world(world_to_radar(p)) is p, up to the rounding of the float
\* operations (exactly where they round nothing).
C20_RoundTrip == back_pt # NoPoint => NearPoint(back_pt, world_pt)

\* C20 witness: a point off the corners of non-square bounds has gone to a
\* non-square canvas and back
C20_Witness ==
    /\ back_pt # NoPoint
    /\ NearPoint(back_pt, world_pt)
    /\ image_size[1] # image_size[2]
    /\ map_bounds.max_x - map_bounds.min_x # map_bounds.max_y - map_bounds.min_y
    /\ world_pt = << FInt(0), FInt(0) >>
    /\ radar_pt # << FInt(0), FInt(0) >>

(***************************************************************************)
(* Properties of the calibration lookup (SpecLookup) and of the            *)
(* calibration table under the calibration tool (SpecCalibration).         *)
(***************************************************************************)
\* C21: for every map name that is not a key of the calibration table (in
\* any case of letters), the lookup returns the default rectangle, min -3000
\* and max 3000 on both axes, and so never the calibration of a known map.
C21_UnknownMapGetsDefault ==
    (lookup_out # NoPoint /\ Lower(lookup_name) \notin DOMAIN MAP_CONFIGS) =>
        /\ lookup_out.min_x = -3000 /\ lookup_out.max_x = 3000
        /\ lookup_out.min_y = -3000 /\ lookup_out.max_y = 3000
        /\ \A k \in DOMAIN MAP_CONFIGS : lookup_out # MAP_CONFIGS[k]

\* C22: whatever is edited in the calibration tool, get_map_config of every
\* known map returns the bounds loaded at startup, and the renderer of
\* another consumer sees the bounds loaded at startup.
C22_TableNeverMutated ==
    /\ \A k \in DOMAIN MAP_CONFIGS :
          Deref(map_configs, get_map_config(k)) = MAP_CONFIGS[k]
    /\ consumer # NoRenderer =>
          Deref(map_configs, consumer.map_bounds)
              = Deref(MAP_CONFIGS, consumer.map_bounds)

(***************************************************************************)
(* Properties of the statistics (SpecStats).                               *)
(***************************************************************************)
\* the alphabetical rank of the player names and weapon names of the model
NameRank ==
    ("ak47" :> 1) @@ ("alice" :> 2) @@ ("awp" :> 3) @@ ("bob" :> 4) @@
    ("renamed" :> 5) @@ ("world" :> 6)

\* C23: the leaderboard is in descending order of the sort field and the
\* weapon table in descending order of kills, and entries with equal values
\* come in the order of their names.
C23_SortedWithNameTieBreak ==
    /\ leaderboard # NoTable =>
          /\ ~IsRaised(leaderboard)
          /\ \A i, j \in 1..Len(leaderboard.rows) :
                i < j =>
                    LET a == SortKey(leaderboard.rows[i], sort_field)
                        b == SortKey(leaderboard.rows[j], sort_field)
                    IN /\ FLeq(b, a)
                       /\ a = b => NameRank[leaderboard.rows[i].name]
                                     <= NameRank[leaderboard.rows[j].name]
    /\ weapon_table # NoTable =>
          /\ ~IsRaised(weapon_table)
          /\ \A i, j \in 1..Len(weapon_table.rows) :
                i < j =>
                    /\ weapon_table.rows[i].kills >= weapon_table.rows[j].kills
                    /\ weapon_table.rows[i].kills = weapon_table.rows[j].kills
                         => NameRank[weapon_table.rows[i].weapon]
                              <= NameRank[weapon_table.rows[j].weapon]

(***************************************************************************)
(* Properties of the Match the worker builds (SpecBuild).                  *)
(***************************************************************************)
\* the rounds of the parse result won by CT, and those won by T
RoundsWonByCT ==
    { i \in 1..Len(parse_result.rounds) :
        parse_result.rounds[i].winner = STR_CT }

RoundsWonByT ==
    { i \in 1..Len(parse_result.rounds) :
        parse_result.rounds[i].winner
            \in {STR_T, STR_Terrorist, STR_TERRORIST} }

\* C25: in the Match built from a parse result every round counts for at
\* most one side: score_ct + score_t <= total_rounds, a round won by CT
\* does not add to score_t, and winner_team is "CT" whenever CT won more
\* rounds than T.
C25_RoundCountedForOneSide ==
    built # NoBuilt =>
        /\ built.score_ct + built.score_t <= built.total_rounds
        /\ built.score_t
             <= Len(parse_result.rounds) - Cardinality(RoundsWonByCT)
        /\ Cardinality(RoundsWonByCT) > Cardinality(RoundsWonByT)
             => winner_team(built) = "CT"

(***************************************************************************)
(* Properties of the playback position (SpecPlayback).                     *)
(***************************************************************************)
\* C24: for every loaded frame list, the empty one and a list of one frame
\* included, get_progress returns a value and does not raise, and the value
\* lies between 0 and 1.
C24_ProgressInUnitInterval ==
    LET q == get_progress(Viewer)
    IN /\ ~IsRaised(q)
       /\ FLeq(FZero, q) /\ FLeq(q, FInt(1))

\* C28: when a timer tick pauses playback at the end of the stream, the frame
\* on the canvas is the last sample, frames[len(frames) - 1], not a frame
\* interpolated on an earlier tick.
C28_LastSampleShownAtAutoPause ==
    (is_playing /\ frames # <<>> /\ ~Ticked.is_playing) =>
        Ticked.canvas_frame = frames[Len(frames)]

\* the indices outside the frame list that seek is handed
OutsideIndices == { i \in -1..MaxFrames : i < 0 \/ i >= Len(frames) }

\* C29: after any sequence of load_match, play, pause, stop, seek,
\* set_progress and timer ticks with a speed multiplier >= 0, a non-empty
\* frame list has 0 <= current_frame_index <= len(frames) - 1 and
\* 0 <= interpolation fraction < 1, and a seek to an index outside the frame
\* list changes nothing.
C29_PositionInRange ==
    /\ frames # <<>> =>
          /\ 0 <= current_frame_index
          /\ current_frame_index <= Len(frames) - 1
          /\ FLeq(FZero, interpolation_progress)
          /\ FLess(interpolation_progress, FInt(1))
    /\ \A i \in OutsideIndices : seek(Viewer, i) = Viewer

\* C29 witness: playback has ticked to the last step before a sample
\* boundary, past the first sample, and seek is handed the index len(frames)
C29_Witness ==
    /\ Len(frames) >= 2
    /\ current_frame_index >= 1
    /\ FLess(interpolation_progress, FInt(1))
    /\ FLeq(FInt(1), TickedFraction)
    /\ Len(frames) \in OutsideIndices
    /\ seek(Viewer, Len(frames)) = Viewer

(***************************************************************************)
(* Properties of the manager's worker table (SpecWorker).                  *)
(***************************************************************************)
\* no signal of the worker of a path is waiting for the GUI thread
NothingPending(p) == \A k \in 1..Len(signals) : signals[k].path # p

\* C26: a worker that has emitted parse_completed or parse_error is out of
\* the manager's worker table once the signal is delivered, with or without
\* on_completed / on_error callbacks; so when every started worker has
\* emitted and nothing is pending, is_parsing() is false.
C26_EmittingWorkerRemoved ==
    /\ \A p \in DemoPaths :
          ( /\ worker[p].completed_emitted \/ worker[p].error_emitted
            /\ NothingPending(p) )
          => p \notin workers
    /\ ( \A p \in DemoPaths :
            /\ worker[p].pc \in {"none", "finished"}
            /\ worker[p].pc = "finished" =>
                  worker[p].completed_emitted \/ worker[p].error_emitted
            /\ NothingPending(p) )
       => ~is_parsing

\* C27: a cancelled worker whose thread has ended is out of the manager's
\* worker table once nothing of it is pending; every worker whose thread
\* has ended has emitted parse_completed or parse_error.
C27_CancelledWorkerLeaves ==
    \A p \in DemoPaths :
        /\ ( /\ worker[p].pc = "finished"
              /\ worker[p].is_cancelled
              /\ NothingPending(p) )
           => p \notin workers
        /\ worker[p].pc = "finished" =>
              worker[p].completed_emitted \/ worker[p].error_emitted

(***************************************************************************)
(* Properties of playback left to itself (SpecAutoplay).                   *)
(***************************************************************************)
\* play() has been called on a non-empty frame list with a positive speed
\* multiplier and the viewer is playing
PlayingForward ==
    is_playing /\ frames # <<>> /\ FLess(FZero, playback_speed)

\* the tick that is due changes a field of the viewer
TickMoves == After(Ticked) # Viewer

\* play() leaves a viewer without frames not playing
EmptyNeverPlays ==
    frames = <<>> => ~is_playing /\ ~play(Viewer).is_playing

\* C30: once play() was called on a non-empty frame list with a positive
\* speed multiplier and the user does nothing more, under fair firing of
\* the timer the viewer eventually is at the last frame and not playing;
\* play() on an empty frame list does not make the viewer play.  Only the
\* tick acts and it is a function of the viewer's fields, so the viewer
\* gets to the last frame only if no tick on the way leaves every field as
\* it found it: a playing viewer the tick does not move plays for ever.
C30_PlaybackReachesEnd ==
    /\ PlayingForward => TickMoves
    /\ EmptyNeverPlays

====
